---- MODULE Spec2Model ----
(***************************************************************************)
(* Document ingestion and extraction pipeline of the upload Lambda         *)
(* (src/lambdas/upload-handler.ts): format validation, extraction-strategy *)
(* selection, failure classification and the status-code mapping.          *)
(* The Q&A Lambda (src/unnamed/part_001) is a third entry of the same      *)
(* state machine, and SpecConcurrent runs several upload requests together *)
(* over one bucket.                                                        *)
(*                                                                         *)
(* JavaScript strings are sequences of one-character strings, so that      *)
(* lastIndexOf, slice, toLowerCase, includes, startsWith and trim are      *)
(* computed as the runtime computes them.  The characters "<LF>", "<E9>"   *)
(* and "<FFFD>" stand for the line feed, U+00E9 and the replacement        *)
(* character U+FFFD.                                                       *)
(*                                                                         *)
(* A Buffer is [bytes, pad]: the listed bytes followed by pad bytes 0x20.  *)
(* The run-length tail lets a buffer have the sizes the code's slices      *)
(* (5, 1024) and the documented 10 MB limit are about.  A decoded text is  *)
(* [chars, pad] in the same way.                                           *)
(***************************************************************************)
EXTENDS Integers, Sequences, FiniteSets, TLC

VARIABLES entry, event, args, pc, local, calls, replies, warned, extractOutcome, response

\* the requests in flight together and the objects of the bucket, by key
VARIABLES reqs, bucket

vars ==
    <<entry, event, args, pc, local, calls, replies, warned, extractOutcome, response,
      reqs, bucket>>

----------------------------------------------------------------------------
(* Bounds of the model *)

\* longest list of blocks the extraction service returns
MaxBlocks == 2

----------------------------------------------------------------------------
(* JavaScript values *)

Min(a, b) == IF a < b THEN a ELSE b

Max(a, b) == IF a > b THEN a ELSE b

\* an optional value: undefined, or a defined value
None == [some |-> FALSE]

Some(v) == [some |-> TRUE, v |-> v]

\* String.prototype.lastIndexOf(c): 0-based index of the last c, or -1
LastIndexOf(s, c) ==
    LET hits == {i \in 1..Len(s) : s[i] = c}
    IN  IF hits = {} THEN -1
        ELSE (CHOOSE i \in hits : \A j \in hits : j <= i) - 1

\* start or end index of slice(), relative to a length: negative counts from the end
SliceIndex(i, len) == IF i < 0 THEN Max(len + i, 0) ELSE Min(i, len)

\* String.prototype.slice(start)
Slice(s, start) == SubSeq(s, SliceIndex(start, Len(s)) + 1, Len(s))

LowerChar(c) ==
    CASE c = "A" -> "a" [] c = "B" -> "b" [] c = "C" -> "c" [] c = "D" -> "d"
      [] c = "E" -> "e" [] c = "F" -> "f" [] c = "G" -> "g" [] c = "H" -> "h"
      [] c = "I" -> "i" [] c = "J" -> "j" [] c = "K" -> "k" [] c = "L" -> "l"
      [] c = "M" -> "m" [] c = "N" -> "n" [] c = "O" -> "o" [] c = "P" -> "p"
      [] c = "Q" -> "q" [] c = "R" -> "r" [] c = "S" -> "s" [] c = "T" -> "t"
      [] c = "U" -> "u" [] c = "V" -> "v" [] c = "W" -> "w" [] c = "X" -> "x"
      [] c = "Y" -> "y" [] c = "Z" -> "z" [] OTHER -> c

\* String.prototype.toLowerCase()
ToLowerCase(s) == [i \in 1..Len(s) |-> LowerChar(s[i])]

\* String.prototype.startsWith(p)
StartsWith(s, p) == Len(p) <= Len(s) /\ SubSeq(s, 1, Len(p)) = p

\* String.prototype.includes(sub)
Includes(s, sub) ==
    \E i \in 1..(Len(s) - Len(sub) + 1) : SubSeq(s, i, i + Len(sub) - 1) = sub

\* Array.prototype.includes(x) on an array of strings
ArrayIncludes(arr, x) == \E i \in 1..Len(arr) : arr[i] = x

IsSpace(c) == c \in {" ", "<LF>"}

\* String.prototype.trim()
Trim(s) ==
    LET keep == {i \in 1..Len(s) : ~IsSpace(s[i])}
    IN  IF keep = {} THEN <<>>
        ELSE SubSeq(s, CHOOSE i \in keep : \A j \in keep : i <= j,
                       CHOOSE i \in keep : \A j \in keep : j <= i)

RECURSIVE Join(_, _)
\* Array.prototype.join(sep) on an array of strings
Join(arr, sep) ==
    IF Len(arr) = 0 THEN <<>>
    ELSE IF Len(arr) = 1 THEN arr[1]
    ELSE arr[1] \o sep \o Join(Tail(arr), sep)

Spaces(n) == [i \in 1..n |-> " "]

----------------------------------------------------------------------------
(* Buffers and their decoding *)

Buf(bytes, pad) == [bytes |-> bytes, pad |-> pad]

\* Buffer.length
BufLength(b) == Len(b.bytes) + b.pad

\* Buffer.prototype.slice(start, end)
BufSlice(b, start, end) ==
    LET len  == BufLength(b)
        from == SliceIndex(start, len)
        to   == SliceIndex(end, len)
        nb   == Len(b.bytes)
    IN  IF to <= from THEN Buf(<<>>, 0)
        ELSE Buf(SubSeq(b.bytes, from + 1, Min(to, nb)), Max(0, to - Max(from, nb)))

\* the characters of the ASCII bytes the model uses
AsciiChar(b) ==
    CASE b = 32 -> " "  [] b = 37 -> "%" [] b = 45 -> "-" [] b = 49 -> "1"
      [] b = 68 -> "D"  [] b = 69 -> "E" [] b = 70 -> "F" [] b = 72 -> "H"
      [] b = 79 -> "O"  [] b = 80 -> "P" [] b = 100 -> "d" [] b = 102 -> "f"
      [] b = 105 -> "i" [] b = 112 -> "p"

RECURSIVE Utf8Decode(_)
\* Buffer.prototype.toString('utf-8') on the listed bytes: ASCII bytes decode to
\* themselves, 0xC3 0xA9 to U+00E9, and a byte that begins no well-formed
\* sequence (0xFF, a lead byte without its continuation, a lone continuation)
\* to one U+FFFD
Utf8Decode(bytes) ==
    IF Len(bytes) = 0 THEN <<>>
    ELSE IF bytes[1] < 128 THEN <<AsciiChar(bytes[1])>> \o Utf8Decode(Tail(bytes))
    ELSE IF bytes[1] = 195 /\ Len(bytes) >= 2 /\ bytes[2] = 169
         THEN <<"<E9>">> \o Utf8Decode(Tail(Tail(bytes)))
    ELSE <<"<FFFD>">> \o Utf8Decode(Tail(bytes))

Text(chars, pad) == [chars |-> chars, pad |-> pad]

\* Buffer.prototype.toString('utf-8'); the pad bytes 0x20 decode to spaces
BufToString(b) == Text(Utf8Decode(b.bytes), b.pad)

\* String.length of a decoded text
TextLength(t) == Len(t.chars) + t.pad

\* the first characters of a text, with at most n of its pad spaces written out
Expand(t, n) == t.chars \o Spaces(Min(t.pad, n))

\* startsWith / includes on a text: a match reaches at most Len(p) characters
\* into the pad
TextStartsWith(t, p) == StartsWith(Expand(t, Len(p)), p)

TextIncludes(t, sub) == Includes(Expand(t, Len(sub)), sub)

\* String.prototype.slice(0, n) on a text
TextPrefix(t, n) == Text(SubSeq(t.chars, 1, Min(n, Len(t.chars))),
                         Max(0, Min(n, TextLength(t)) - Len(t.chars)))

----------------------------------------------------------------------------
(* String literals of the source *)

\* ".pdf"
EXT_PDF == <<".","p","d","f">>

\* ".txt"
EXT_TXT == <<".","t","x","t">>

\* ".jpg"
EXT_JPG == <<".","j","p","g">>

\* ".jpeg"
EXT_JPEG == <<".","j","p","e","g">>

\* ".png"
EXT_PNG == <<".","p","n","g">>

\* ".tif"
EXT_TIF == <<".","t","i","f">>

\* ".tiff"
EXT_TIFF == <<".","t","i","f","f">>

\* "pdf-bucket"
BUCKET_NAME == <<"p","d","f","-","b","u","c","k","e","t">>

\* "Invalid PDF file: File does not have a valid PDF signature. Please ensure the file is a valid PDF."
MSG_INVALID_PDF ==
    <<"I","n","v","a","l","i","d"," ","P","D","F"," ","f","i","l","e",":"," ","F","i","l","e",
       " ","d","o","e","s"," ","n","o","t"," ","h","a","v","e"," ","a"," ","v","a","l","i","d",
       " ","P","D","F"," ","s","i","g","n","a","t","u","r","e","."," ","P","l","e","a","s","e",
       " ","e","n","s","u","r","e"," ","t","h","e"," ","f","i","l","e"," ","i","s"," ","a"," ",
       "v","a","l","i","d"," ","P","D","F",".">>

\* "No text could be extracted from the document. The document might be empty, image-based, or password-protected."
MSG_NO_TEXT ==
    <<"N","o"," ","t","e","x","t"," ","c","o","u","l","d"," ","b","e"," ","e","x","t","r","a",
       "c","t","e","d"," ","f","r","o","m"," ","t","h","e"," ","d","o","c","u","m","e","n","t",
       "."," ","T","h","e"," ","d","o","c","u","m","e","n","t"," ","m","i","g","h","t"," ","b",
       "e"," ","e","m","p","t","y",","," ","i","m","a","g","e","-","b","a","s","e","d",","," ",
       "o","r"," ","p","a","s","s","w","o","r","d","-","p","r","o","t","e","c","t","e","d",".">>

\* "PDF format not supported by Textract. Please ensure the PDF is not encrypted, password-protected, or corrupted. Try re-saving the PDF or using a different file."
MSG_UNSUPPORTED_DOC ==
    <<"P","D","F"," ","f","o","r","m","a","t"," ","n","o","t"," ","s","u","p","p","o","r","t",
       "e","d"," ","b","y"," ","T","e","x","t","r","a","c","t","."," ","P","l","e","a","s","e",
       " ","e","n","s","u","r","e"," ","t","h","e"," ","P","D","F"," ","i","s"," ","n","o","t",
       " ","e","n","c","r","y","p","t","e","d",","," ","p","a","s","s","w","o","r","d","-","p",
       "r","o","t","e","c","t","e","d",","," ","o","r"," ","c","o","r","r","u","p","t","e","d",
       "."," ","T","r","y"," ","r","e","-","s","a","v","i","n","g"," ","t","h","e"," ","P","D",
       "F"," ","o","r"," ","u","s","i","n","g"," ","a"," ","d","i","f","f","e","r","e","n","t",
       " ","f","i","l","e",".">>

\* "Invalid document format. The file might be corrupted or not a valid PDF."
MSG_INVALID_PARAM ==
    <<"I","n","v","a","l","i","d"," ","d","o","c","u","m","e","n","t"," ","f","o","r","m","a",
       "t","."," ","T","h","e"," ","f","i","l","e"," ","m","i","g","h","t"," ","b","e"," ","c",
       "o","r","r","u","p","t","e","d"," ","o","r"," ","n","o","t"," ","a"," ","v","a","l","i",
       "d"," ","P","D","F",".">>

\* "Text extraction failed: "
MSG_EXTRACTION_FAILED ==
    <<"T","e","x","t"," ","e","x","t","r","a","c","t","i","o","n"," ","f","a","i","l","e","d",
       ":"," ">>

\* "Unknown error"
MSG_UNKNOWN_ERROR == <<"U","n","k","n","o","w","n"," ","e","r","r","o","r">>

\* "No file uploaded"
MSG_NO_FILE == <<"N","o"," ","f","i","l","e"," ","u","p","l","o","a","d","e","d">>

\* "Unsupported file type"
MSG_UNSUPPORTED_TYPE ==
    <<"U","n","s","u","p","p","o","r","t","e","d"," ","f","i","l","e"," ","t","y","p","e">>

\* "Empty or invalid file received"
MSG_EMPTY_FILE ==
    <<"E","m","p","t","y"," ","o","r"," ","i","n","v","a","l","i","d"," ","f","i","l","e"," ",
       "r","e","c","e","i","v","e","d">>

\* "Could not extract text from document"
MSG_NO_EXTRACT ==
    <<"C","o","u","l","d"," ","n","o","t"," ","e","x","t","r","a","c","t"," ","t","e","x","t",
       " ","f","r","o","m"," ","d","o","c","u","m","e","n","t">>

\* "Upload or processing failed"
MSG_UPLOAD_FAILED ==
    <<"U","p","l","o","a","d"," ","o","r"," ","p","r","o","c","e","s","s","i","n","g"," ","f",
       "a","i","l","e","d">>

\* "Server processing error"
MSG_SERVER_ERROR ==
    <<"S","e","r","v","e","r"," ","p","r","o","c","e","s","s","i","n","g"," ","e","r","r","o",
       "r">>

\* "Document processed successfully. You can now ask questions about it."
MSG_PROCESSED ==
    <<"D","o","c","u","m","e","n","t"," ","p","r","o","c","e","s","s","e","d"," ","s","u","c",
       "c","e","s","s","f","u","l","l","y","."," ","Y","o","u"," ","c","a","n"," ","n","o","w",
       " ","a","s","k"," ","q","u","e","s","t","i","o","n","s"," ","a","b","o","u","t"," ","i",
       "t",".">>

\* "invalid"
KW_INVALID == <<"i","n","v","a","l","i","d">>

\* "not supported"
KW_NOT_SUPPORTED == <<"n","o","t"," ","s","u","p","p","o","r","t","e","d">>

\* "too large"
KW_TOO_LARGE == <<"t","o","o"," ","l","a","r","g","e">>

\* "empty"
KW_EMPTY == <<"e","m","p","t","y">>

\* "password-protected"
KW_PASSWORD == <<"p","a","s","s","w","o","r","d","-","p","r","o","t","e","c","t","e","d">>

\* "encrypted"
KW_ENCRYPTED == <<"e","n","c","r","y","p","t","e","d">>

\* "corrupted"
KW_CORRUPTED == <<"c","o","r","r","u","p","t","e","d">>

\* "%PDF-"
PDF_SIGNATURE == <<"%","P","D","F","-">>

\* "%%EOF"
PDF_EOF == <<"%","%","E","O","F">>

\* "Error"
NAME_ERROR == <<"E","r","r","o","r">>

\* "UnsupportedDocumentException"
NAME_UNSUPPORTED_DOC ==
    <<"U","n","s","u","p","p","o","r","t","e","d","D","o","c","u","m","e","n","t","E","x","c",
       "e","p","t","i","o","n">>

\* "InvalidParameterException"
NAME_INVALID_PARAM ==
    <<"I","n","v","a","l","i","d","P","a","r","a","m","e","t","e","r","E","x","c","e","p","t",
       "i","o","n">>

\* "Exception"
NAME_EXCEPTION == <<"E","x","c","e","p","t","i","o","n">>

\* "amazon.titan-text-lite-v1"
MODEL_ID ==
    <<"a","m","a","z","o","n",".","t","i","t","a","n","-","t","e","x","t","-","l","i","t","e",
       "-","v","1">>

\* "Provide a concise summary of the following document:\n\n"
PROMPT_HEAD ==
    <<"P","r","o","v","i","d","e"," ","a"," ","c","o","n","c","i","s","e"," ","s","u","m","m",
       "a","r","y"," ","o","f"," ","t","h","e"," ","f","o","l","l","o","w","i","n","g"," ","d",
       "o","c","u","m","e","n","t",":","<LF>","<LF>">>

\* "\n\nSummary:"
PROMPT_TAIL == <<"<LF>","<LF>","S","u","m","m","a","r","y",":">>

\* "..."
ELLIPSIS == <<".",".",".">>

\* "application/pdf"
CT_PDF == <<"a","p","p","l","i","c","a","t","i","o","n","/","p","d","f">>

\* "text/plain"
CT_TXT == <<"t","e","x","t","/","p","l","a","i","n">>

\* "image/jpeg"
CT_JPEG == <<"i","m","a","g","e","/","j","p","e","g">>

\* "image/png"
CT_PNG == <<"i","m","a","g","e","/","p","n","g">>

\* "image/tiff"
CT_TIFF == <<"i","m","a","g","e","/","t","i","f","f">>

\* "application/octet-stream"
CT_OCTET ==
    <<"a","p","p","l","i","c","a","t","i","o","n","/","o","c","t","e","t","-","s","t","r","e",
       "a","m">>

\* "SyntaxError"
NAME_SYNTAX_ERROR == <<"S","y","n","t","a","x","E","r","r","o","r">>

\* "TypeError"
NAME_TYPE_ERROR == <<"T","y","p","e","E","r","r","o","r">>

\* "Unexpected token h in JSON at position 0"
MSG_JSON_SYNTAX ==
    <<"U","n","e","x","p","e","c","t","e","d"," ","t","o","k","e","n"," ","h"," ","i","n"," ",
       "J","S","O","N"," ","a","t"," ","p","o","s","i","t","i","o","n"," ","0">>

\* "Cannot read properties of undefined (reading 'slice')"
MSG_SLICE_UNDEFINED ==
    <<"C","a","n","n","o","t"," ","r","e","a","d"," ","p","r","o","p","e","r","t","i","e","s",
       " ","o","f"," ","u","n","d","e","f","i","n","e","d"," ","(","r","e","a","d","i","n","g",
       " ","'","s","l","i","c","e","'",")">>

\* "The first argument must be of type string or an instance of Buffer, ArrayBuffer, or Array or an Array-like Object. Received undefined"
MSG_BUFFER_FROM ==
    <<"T","h","e"," ","f","i","r","s","t"," ","a","r","g","u","m","e","n","t"," ","m","u","s",
       "t"," ","b","e"," ","o","f"," ","t","y","p","e"," ","s","t","r","i","n","g"," ","o","r",
       " ","a","n"," ","i","n","s","t","a","n","c","e"," ","o","f"," ","B","u","f","f","e","r",
       ","," ","A","r","r","a","y","B","u","f","f","e","r",","," ","o","r"," ","A","r","r","a",
       "y"," ","o","r"," ","a","n"," ","A","r","r","a","y","-","l","i","k","e"," ","O","b","j",
       "e","c","t","."," ","R","e","c","e","i","v","e","d"," ","u","n","d","e","f","i","n","e",
       "d">>

\* "Cannot read properties of undefined (reading '0')"
MSG_RESULTS_UNDEFINED ==
    <<"C","a","n","n","o","t"," ","r","e","a","d"," ","p","r","o","p","e","r","t","i","e","s",
       " ","o","f"," ","u","n","d","e","f","i","n","e","d"," ","(","r","e","a","d","i","n","g",
       " ","'","0","'",")">>

\* "-"
DASH == <<"-">>

\* fileBuffer.slice(-1024): the length of the tail searched for the trailer
TAIL_BYTES == 1024

\* maxTextLength of generateSummary
MAX_TEXT_LENGTH == 3000

\* the documented ceiling of an uploaded file, 10 MB, in bytes
INLINE_MAX_BYTES == 10485760

allowedExtensions == <<EXT_PDF, EXT_TXT, EXT_JPG, EXT_JPEG, EXT_PNG, EXT_TIF, EXT_TIFF>>

imageExtensions == <<EXT_JPG, EXT_JPEG, EXT_PNG, EXT_TIF, EXT_TIFF>>

\* the keywords of the handler's catch block that make a failure a client error
clientKeywords ==
    <<KW_INVALID, KW_NOT_SUPPORTED, KW_TOO_LARGE, KW_EMPTY, KW_PASSWORD, KW_ENCRYPTED,
      KW_CORRUPTED>>

contentTypeMap(ext) ==
    CASE ext = EXT_PDF -> CT_PDF
      [] ext = EXT_TXT -> CT_TXT
      [] ext = EXT_JPG -> CT_JPEG
      [] ext = EXT_JPEG -> CT_JPEG
      [] ext = EXT_PNG -> CT_PNG
      [] ext = EXT_TIF -> CT_TIFF
      [] ext = EXT_TIFF -> CT_TIFF
      [] OTHER -> CT_OCTET

----------------------------------------------------------------------------
(* Errors *)

\* a thrown value: its name and message, who made it (the pipeline itself, the
\* runtime, or a collaborator) and whether it is an instance of Error
Err(name, message, src, inst) ==
    [name |-> name, message |-> message, src |-> src, inst |-> inst]

\* new Error(message), thrown by the pipeline
NewError(message) == Err(NAME_ERROR, message, "pipeline", TRUE)

\* a value is truthy when it is defined and not the empty string
Truthy(opt) == opt.some /\ Len(opt.v) > 0

----------------------------------------------------------------------------
(* extractText *)

\* faulty variant of HasPdfSignature: the signature is compared without regard to case
HasPdfSignature_AnyCase(fileBuffer) ==
    StartsWith(ToLowerCase(Expand(BufToString(BufSlice(fileBuffer, 0, 5)), 5)),
               ToLowerCase(PDF_SIGNATURE))

\* header.startsWith('%PDF-') on the first 5 bytes
HasPdfSignature(fileBuffer) ==
    TextStartsWith(BufToString(BufSlice(fileBuffer, 0, 5)), PDF_SIGNATURE)

\* tail.includes('%%EOF') on the last 1024 bytes
HasEofMarker(fileBuffer) ==
    TextIncludes(BufToString(BufSlice(fileBuffer, -TAIL_BYTES, BufLength(fileBuffer))),
                 PDF_EOF)

\* faulty variant of TextractDocument: the stored object is used for every extension
TextractDocument_AnyExtByReference(fileBuffer, ext, s3Bucket, s3Key) ==
    IF Truthy(s3Bucket) /\ Truthy(s3Key)
    THEN [S3Object |-> [Bucket |-> s3Bucket.v, Name |-> s3Key.v]]
    ELSE [Bytes |-> fileBuffer]

\* the Document of the DetectDocumentTextCommand: the stored object for a pdf
\* with a bucket and a key, the bytes otherwise
TextractDocument(fileBuffer, ext, s3Bucket, s3Key) ==
    IF ext = EXT_PDF /\ Truthy(s3Bucket) /\ Truthy(s3Key)
    THEN [S3Object |-> [Bucket |-> s3Bucket.v, Name |-> s3Key.v]]
    ELSE [Bytes |-> fileBuffer]

\* faulty variant of ExtractBegin: the text of a txt document is trimmed
ExtractBegin_TxtTrimmed(a) ==
    IF a.ext = EXT_TXT
    THEN [kind |-> "return", text |-> Text(Trim(Utf8Decode(a.fileBuffer.bytes)), 0)]
    ELSE IF a.ext = EXT_PDF \/ ArrayIncludes(imageExtensions, a.ext)
    THEN IF a.ext = EXT_PDF /\ ~HasPdfSignature(a.fileBuffer)
         THEN [kind |-> "throw", error |-> NewError(MSG_INVALID_PDF)]
         ELSE [kind |-> "send",
               Document |-> TextractDocument(a.fileBuffer, a.ext, a.s3Bucket, a.s3Key)]
    ELSE [kind |-> "return", text |-> Text(<<>>, 0)]

\* extractText up to its first await: it returns, throws, or sends a command
ExtractBegin(a) ==
    IF a.ext = EXT_TXT
    THEN [kind |-> "return", text |-> BufToString(a.fileBuffer)]
    ELSE IF a.ext = EXT_PDF \/ ArrayIncludes(imageExtensions, a.ext)
    THEN IF a.ext = EXT_PDF /\ ~HasPdfSignature(a.fileBuffer)
         THEN [kind |-> "throw", error |-> NewError(MSG_INVALID_PDF)]
         ELSE [kind |-> "send",
               Document |-> TextractDocument(a.fileBuffer, a.ext, a.s3Bucket, a.s3Key)]
    ELSE [kind |-> "return", text |-> Text(<<>>, 0)]

\* console.warn of a pdf whose tail has no trailer
ExtractWarns(a) ==
    /\ a.ext = EXT_PDF
    /\ HasPdfSignature(a.fileBuffer)
    /\ ~HasEofMarker(a.fileBuffer)

IsLineBlock(block) == block.BlockType = "LINE" /\ Truthy(block.Text)

\* faulty variant of LineText: the blocks are not filtered by their type
LineText_AnyBlockType(Blocks) ==
    IF ~Blocks.some THEN <<>>
    ELSE LET lines == SelectSeq(Blocks.v, LAMBDA block : Truthy(block.Text))
         IN  Join([i \in 1..Len(lines) |-> lines[i].Text.v], <<" ">>)

\* Blocks?.filter(LINE with text).map(Text).join(' ') || ''
LineText(Blocks) ==
    IF ~Blocks.some THEN <<>>
    ELSE LET lines == SelectSeq(Blocks.v, IsLineBlock)
         IN  Join([i \in 1..Len(lines) |-> lines[i].Text.v], <<" ">>)

\* faulty variant of ExtractTry: only the empty text is refused, not the blank one
ExtractTry_NoBlankCheck(reply) ==
    IF reply.kind = "throw" THEN reply
    ELSE LET extractedText == LineText(reply.Blocks)
         IN  IF Len(extractedText) = 0
             THEN [kind |-> "throw", error |-> NewError(MSG_NO_TEXT)]
             ELSE [kind |-> "return", text |-> Text(extractedText, 0)]

\* the try block after the await: the service's error, the pipeline's own
\* failure for a blank text, or the text
ExtractTry(reply) ==
    IF reply.kind = "throw" THEN reply
    ELSE LET extractedText == LineText(reply.Blocks)
         IN  IF Len(extractedText) = 0 \/ Len(Trim(extractedText)) = 0
             THEN [kind |-> "throw", error |-> NewError(MSG_NO_TEXT)]
             ELSE [kind |-> "return", text |-> Text(extractedText, 0)]

\* faulty variant of ClassifyError: InvalidParameterException has no branch of its own
ClassifyError_NoInvalidParam(error) ==
    IF error.name = NAME_UNSUPPORTED_DOC THEN NewError(MSG_UNSUPPORTED_DOC)
    ELSE IF Len(error.message) > 0 /\ ~Includes(error.name, NAME_EXCEPTION) THEN error
    ELSE NewError(MSG_EXTRACTION_FAILED \o
                  (IF Len(error.message) > 0 THEN error.message ELSE MSG_UNKNOWN_ERROR))

\* the catch block of extractText: what it throws for a caught error
ClassifyError(error) ==
    IF error.name = NAME_UNSUPPORTED_DOC THEN NewError(MSG_UNSUPPORTED_DOC)
    ELSE IF error.name = NAME_INVALID_PARAM THEN NewError(MSG_INVALID_PARAM)
    ELSE IF Len(error.message) > 0 /\ ~Includes(error.name, NAME_EXCEPTION) THEN error
    ELSE NewError(MSG_EXTRACTION_FAILED \o
                  (IF Len(error.message) > 0 THEN error.message ELSE MSG_UNKNOWN_ERROR))

\* extractText after the service replied
ExtractFinish(reply) ==
    LET r == ExtractTry(reply)
    IN  IF r.kind = "throw" THEN [kind |-> "throw", error |-> ClassifyError(r.error)]
        ELSE r

----------------------------------------------------------------------------
(* generateSummary *)

\* the InvokeModelCommand: the prompt around the text, cut to 3000 characters
SummaryCommand(text) ==
    [modelId |-> MODEL_ID,
     inputText |-> [head |-> PROMPT_HEAD,
                    text |-> IF TextLength(text) > MAX_TEXT_LENGTH
                             THEN TextPrefix(text, MAX_TEXT_LENGTH) ELSE text,
                    ellipsis |-> TextLength(text) > MAX_TEXT_LENGTH,
                    tail |-> PROMPT_TAIL]]

\* generateSummary after the model replied: results[0].outputText.trim()
SummaryFinish(reply) ==
    IF reply.kind = "throw" THEN reply
    ELSE IF ~reply.outputText.some
    THEN [kind |-> "throw",
          error |-> Err(NAME_TYPE_ERROR, MSG_RESULTS_UNDEFINED, "runtime", TRUE)]
    ELSE [kind |-> "return", summary |-> Trim(reply.outputText.v)]

----------------------------------------------------------------------------
(* handler *)

\* faulty variant of ExtOf: the suffix is not lower-cased
ExtOf_CaseSensitive(fileName) == Slice(fileName, LastIndexOf(fileName, "."))

\* the extension of a file name: fileName.slice(fileName.lastIndexOf('.')).toLowerCase()
ExtOf(fileName) == ToLowerCase(Slice(fileName, LastIndexOf(fileName, ".")))

Response(statusCode, body) == [statusCode |-> statusCode, body |-> body]

NoResponse == Response(0, [pending |-> TRUE])

\* does the lower-cased message include one of the client keywords
IsClientMessage(message) ==
    LET msg == ToLowerCase(message)
    IN  \E i \in 1..Len(clientKeywords) : Includes(msg, clientKeywords[i])

\* faulty variant of ErrorResponse: a thrown value that is no Error is thrown
\* again by the catch block, so that no response is returned
ErrorResponse_NonErrorEscapes(err) ==
    IF ~err.inst
    THEN NoResponse
    ELSE IF IsClientMessage(err.message)
    THEN Response(400, [error |-> err.message, details |-> err.message])
    ELSE Response(500, [error |-> MSG_SERVER_ERROR, details |-> err.message])

\* the catch block of the handler
ErrorResponse(err) ==
    IF ~err.inst
    THEN Response(500, [error |-> MSG_UPLOAD_FAILED, details |-> MSG_UNKNOWN_ERROR])
    ELSE IF IsClientMessage(err.message)
    THEN Response(400, [error |-> err.message, details |-> err.message])
    ELSE Response(500, [error |-> MSG_SERVER_ERROR, details |-> err.message])

\* faulty variant of PutSend: the key is the file name, without the document id
PutSend_KeyIsFileName(ev, documentId) ==
    [kind |-> "send",
     ext |-> ExtOf(ev.fileName.v),
     fileBuffer |-> ev.fileBytes.v,
     documentId |-> documentId,
     key |-> ev.fileName.v,
     command |-> [Bucket |-> BUCKET_NAME,
                  Key |-> ev.fileName.v,
                  Body |-> ev.fileBytes.v,
                  ContentType |-> contentTypeMap(ExtOf(ev.fileName.v))]]

\* the PutObjectCommand of the file under a fresh key, and the locals it is
\* built from
PutSend(ev, documentId) ==
    [kind |-> "send",
     ext |-> ExtOf(ev.fileName.v),
     fileBuffer |-> ev.fileBytes.v,
     documentId |-> documentId,
     key |-> documentId \o DASH \o ev.fileName.v,
     command |-> [Bucket |-> BUCKET_NAME,
                  Key |-> documentId \o DASH \o ev.fileName.v,
                  Body |-> ev.fileBytes.v,
                  ContentType |-> contentTypeMap(ExtOf(ev.fileName.v))]]

\* faulty variant of HandlerBegin: the decoded buffer is not checked for being empty
HandlerBegin_NoEmptyCheck(ev, documentId) ==
    IF ev.body = "none"
    THEN [kind |-> "respond", response |-> Response(400, [error |-> MSG_NO_FILE])]
    ELSE IF ev.body = "malformed"
    THEN [kind |-> "throw",
          error |-> Err(NAME_SYNTAX_ERROR, MSG_JSON_SYNTAX, "runtime", TRUE)]
    ELSE IF ~ev.fileName.some
    THEN [kind |-> "throw",
          error |-> Err(NAME_TYPE_ERROR, MSG_SLICE_UNDEFINED, "runtime", TRUE)]
    ELSE IF ~ArrayIncludes(allowedExtensions, ExtOf(ev.fileName.v))
    THEN [kind |-> "respond",
          response |-> Response(400, [error |-> MSG_UNSUPPORTED_TYPE])]
    ELSE IF ~ev.fileBytes.some
    THEN [kind |-> "throw",
          error |-> Err(NAME_TYPE_ERROR, MSG_BUFFER_FROM, "runtime", TRUE)]
    ELSE PutSend(ev, documentId)

\* the handler up to its first await: a response, a thrown error, or the
\* PutObjectCommand
HandlerBegin(ev, documentId) ==
    IF ev.body = "none"
    THEN [kind |-> "respond", response |-> Response(400, [error |-> MSG_NO_FILE])]
    ELSE IF ev.body = "malformed"
    THEN [kind |-> "throw",
          error |-> Err(NAME_SYNTAX_ERROR, MSG_JSON_SYNTAX, "runtime", TRUE)]
    ELSE IF ~ev.fileName.some
    THEN [kind |-> "throw",
          error |-> Err(NAME_TYPE_ERROR, MSG_SLICE_UNDEFINED, "runtime", TRUE)]
    ELSE IF ~ArrayIncludes(allowedExtensions, ExtOf(ev.fileName.v))
    THEN [kind |-> "respond",
          response |-> Response(400, [error |-> MSG_UNSUPPORTED_TYPE])]
    ELSE IF ~ev.fileBytes.some
    THEN [kind |-> "throw",
          error |-> Err(NAME_TYPE_ERROR, MSG_BUFFER_FROM, "runtime", TRUE)]
    ELSE IF BufLength(ev.fileBytes.v) = 0
    THEN [kind |-> "respond", response |-> Response(400, [error |-> MSG_EMPTY_FILE])]
    ELSE PutSend(ev, documentId)

\* faulty variant of HandlerExtractArgs: the document id is passed as the key
HandlerExtractArgs_KeyIsDocumentId(loc) ==
    [fileBuffer |-> loc.fileBuffer, ext |-> loc.ext,
     s3Bucket |-> Some(BUCKET_NAME), s3Key |-> Some(loc.documentId)]

\* the arguments of the handler's call of extractText
HandlerExtractArgs(loc) ==
    [fileBuffer |-> loc.fileBuffer, ext |-> loc.ext,
     s3Bucket |-> Some(BUCKET_NAME), s3Key |-> Some(loc.key)]

\* the handler once extractText has returned or thrown: a response, or the
\* InvokeModelCommand of generateSummary
HandlerAfterExtract(outcome) ==
    IF outcome.kind = "throw"
    THEN [kind |-> "respond", response |-> ErrorResponse(outcome.error)]
    ELSE IF TextLength(outcome.text) = 0
    THEN [kind |-> "respond", response |-> Response(400, [error |-> MSG_NO_EXTRACT])]
    ELSE [kind |-> "send", command |-> SummaryCommand(outcome.text)]

\* faulty variant of HandlerAfterSummary: the response names the file, not the key
HandlerAfterSummary_KeyIsFileName(loc, ev, outcome) ==
    IF outcome.kind = "throw" THEN ErrorResponse(outcome.error)
    ELSE Response(200, [documentId |-> loc.documentId,
                        fileName |-> ev.fileName.v,
                        s3Key |-> ev.fileName.v,
                        extractedText |-> loc.extractedText,
                        summary |-> outcome.summary,
                        message |-> MSG_PROCESSED])

\* the handler once generateSummary has returned or thrown
HandlerAfterSummary(loc, ev, outcome) ==
    IF outcome.kind = "throw" THEN ErrorResponse(outcome.error)
    ELSE Response(200, [documentId |-> loc.documentId,
                        fileName |-> ev.fileName.v,
                        s3Key |-> loc.key,
                        extractedText |-> loc.extractedText,
                        summary |-> outcome.summary,
                        message |-> MSG_PROCESSED])

\* file names of the requests
\* "a.pdf"
FN_PDF == <<"a",".","p","d","f">>

\* "A.PDF"
FN_PDF_UPPER == <<"A",".","P","D","F">>

\* "a.b.Pdf"
FN_PDF_MIXED == <<"a",".","b",".","P","d","f">>

\* ".pdf"
FN_PDF_BARE == <<".","p","d","f">>

\* "a.txt.pdf"
FN_PDF_AFTER_TXT == <<"a",".","t","x","t",".","p","d","f">>

\* "a.txt"
FN_TXT == <<"a",".","t","x","t">>

\* "A.TXT"
FN_TXT_UPPER == <<"A",".","T","X","T">>

\* "a.jpg"
FN_JPG == <<"a",".","j","p","g">>

\* "a.JPEG"
FN_JPEG == <<"a",".","J","P","E","G">>

\* "a.png"
FN_PNG == <<"a",".","p","n","g">>

\* "a.tif"
FN_TIF == <<"a",".","t","i","f">>

\* "a.TiFf"
FN_TIFF == <<"a",".","T","i","F","f">>

\* "a.exe"
FN_EXE == <<"a",".","e","x","e">>

\* "a.pdfx"
FN_PDFX == <<"a",".","p","d","f","x">>

\* "a.pdf.bak"
FN_PDF_BAK == <<"a",".","p","d","f",".","b","a","k">>

\* "a."
FN_DOT == <<"a",".">>

\* "a"
FN_NO_DOT == <<"a">>

\* "apdf"
FN_NO_DOT_PDF == <<"a","p","d","f">>

\* "f"
FN_NO_DOT_F == <<"f">>

\* extensions given to extractText directly
\* ".exe"
EXT_EXE == <<".","e","x","e">>

\* ".PDF"
EXT_PDF_UPPER == <<".","P","D","F">>

\* document ids
\* "d1"
UUID_1 == <<"d","1">>

\* "d2"
UUID_2 == <<"d","2">>

\* a key given to extractText directly
\* "d1-a.pdf"
KEY_1 == <<"d","1","-","a",".","p","d","f">>

\* texts of blocks
\* "Hi"
TXT_HI == <<"H","i">>

\* "ok"
TXT_OK == <<"o","k">>

\* "no"
TXT_NO == <<"n","o">>

\* " "
TXT_SPACE == <<" ">>

\* generated summaries
\* " A summary. "
OUT_SUMMARY == <<" ","A"," ","s","u","m","m","a","r","y","."," ">>

\* errors of the collaborators
\* "ThrottlingException"
NAME_THROTTLING ==
    <<"T","h","r","o","t","t","l","i","n","g","E","x","c","e","p","t","i","o","n">>

\* "AccessDeniedException"
NAME_ACCESS_DENIED ==
    <<"A","c","c","e","s","s","D","e","n","i","e","d","E","x","c","e","p","t","i","o","n">>

\* "InternalServerError"
NAME_INTERNAL ==
    <<"I","n","t","e","r","n","a","l","S","e","r","v","e","r","E","r","r","o","r">>

\* "TimeoutError"
NAME_TIMEOUT == <<"T","i","m","e","o","u","t","E","r","r","o","r">>

\* "InvalidS3ObjectException"
NAME_INVALID_S3 ==
    <<"I","n","v","a","l","i","d","S","3","O","b","j","e","c","t","E","x","c","e","p","t","i",
       "o","n">>

\* "NoSuchBucket"
NAME_NO_SUCH_BUCKET == <<"N","o","S","u","c","h","B","u","c","k","e","t">>

\* "InvalidRequest"
NAME_INVALID_REQUEST == <<"I","n","v","a","l","i","d","R","e","q","u","e","s","t">>

\* "ValidationException"
NAME_VALIDATION ==
    <<"V","a","l","i","d","a","t","i","o","n","E","x","c","e","p","t","i","o","n">>

\* "Request has unsupported document format"
MSG_UNSUPPORTED_FORMAT ==
    <<"R","e","q","u","e","s","t"," ","h","a","s"," ","u","n","s","u","p","p","o","r","t","e",
       "d"," ","d","o","c","u","m","e","n","t"," ","f","o","r","m","a","t">>

\* "Request has invalid parameters"
MSG_INVALID_PARAMETERS ==
    <<"R","e","q","u","e","s","t"," ","h","a","s"," ","i","n","v","a","l","i","d"," ","p","a",
       "r","a","m","e","t","e","r","s">>

\* "Rate exceeded"
MSG_RATE_EXCEEDED == <<"R","a","t","e"," ","e","x","c","e","e","d","e","d">>

\* "User is not authorized to perform: textract:DetectDocumentText"
MSG_NOT_AUTHORIZED ==
    <<"U","s","e","r"," ","i","s"," ","n","o","t"," ","a","u","t","h","o","r","i","z","e","d",
       " ","t","o"," ","p","e","r","f","o","r","m",":"," ","t","e","x","t","r","a","c","t",":",
       "D","e","t","e","c","t","D","o","c","u","m","e","n","t","T","e","x","t">>

\* "Internal failure"
MSG_INTERNAL == <<"I","n","t","e","r","n","a","l"," ","f","a","i","l","u","r","e">>

\* "Connection timed out"
MSG_TIMED_OUT ==
    <<"C","o","n","n","e","c","t","i","o","n"," ","t","i","m","e","d"," ","o","u","t">>

\* "Unable to get object metadata from S3. Invalid object key"
MSG_INVALID_S3 ==
    <<"U","n","a","b","l","e"," ","t","o"," ","g","e","t"," ","o","b","j","e","c","t"," ","m",
       "e","t","a","d","a","t","a"," ","f","r","o","m"," ","S","3","."," ","I","n","v","a","l",
       "i","d"," ","o","b","j","e","c","t"," ","k","e","y">>

\* "The specified bucket does not exist"
MSG_NO_SUCH_BUCKET ==
    <<"T","h","e"," ","s","p","e","c","i","f","i","e","d"," ","b","u","c","k","e","t"," ","d",
       "o","e","s"," ","n","o","t"," ","e","x","i","s","t">>

\* "Invalid request: the object is encrypted with an unknown key"
MSG_INVALID_REQUEST ==
    <<"I","n","v","a","l","i","d"," ","r","e","q","u","e","s","t",":"," ","t","h","e"," ","o",
       "b","j","e","c","t"," ","i","s"," ","e","n","c","r","y","p","t","e","d"," ","w","i","t",
       "h"," ","a","n"," ","u","n","k","n","o","w","n"," ","k","e","y">>

\* "Malformed input request: expected maxLength: 42000, please reformat your input"
MSG_VALIDATION ==
    <<"M","a","l","f","o","r","m","e","d"," ","i","n","p","u","t"," ","r","e","q","u","e","s",
       "t",":"," ","e","x","p","e","c","t","e","d"," ","m","a","x","L","e","n","g","t","h",":",
       " ","4","2","0","0","0",","," ","p","l","e","a","s","e"," ","r","e","f","o","r","m","a",
       "t"," ","y","o","u","r"," ","i","n","p","u","t">>

\* "The model returned an empty completion"
MSG_MODEL_EMPTY ==
    <<"T","h","e"," ","m","o","d","e","l"," ","r","e","t","u","r","n","e","d"," ","a","n"," ",
       "e","m","p","t","y"," ","c","o","m","p","l","e","t","i","o","n">>

----------------------------------------------------------------------------
(* The Q&A handler: answerQuestion and handler *)

\* "OPTIONS"
METHOD_OPTIONS == <<"O","P","T","I","O","N","S">>

\* "No input provided"
MSG_NO_INPUT == <<"N","o"," ","i","n","p","u","t"," ","p","r","o","v","i","d","e","d">>

\* "Missing required fields: extractedText and question"
MSG_MISSING_FIELDS ==
    <<"M","i","s","s","i","n","g"," ","r","e","q","u","i","r","e","d"," ","f","i","e","l","d",
       "s",":"," ","e","x","t","r","a","c","t","e","d","T","e","x","t"," ","a","n","d"," ","q",
       "u","e","s","t","i","o","n">>

\* "Frontend should send the extractedText from localStorage along with the user question"
MSG_HINT ==
    <<"F","r","o","n","t","e","n","d"," ","s","h","o","u","l","d"," ","s","e","n","d"," ","t",
       "h","e"," ","e","x","t","r","a","c","t","e","d","T","e","x","t"," ","f","r","o","m"," ",
       "l","o","c","a","l","S","t","o","r","a","g","e"," ","a","l","o","n","g"," ","w","i","t",
       "h"," ","t","h","e"," ","u","s","e","r"," ","q","u","e","s","t","i","o","n">>

\* "Q&A processing failed"
MSG_QA_FAILED ==
    <<"Q","&","A"," ","p","r","o","c","e","s","s","i","n","g"," ","f","a","i","l","e","d">>

\* "AI processing failed: "
MSG_AI_FAILED ==
    <<"A","I"," ","p","r","o","c","e","s","s","i","n","g"," ","f","a","i","l","e","d",":"," ">>

\* "Based on this document content:\n\n"
QA_PROMPT_HEAD ==
    <<"B","a","s","e","d"," ","o","n"," ","t","h","i","s"," ","d","o","c","u","m","e","n","t",
       " ","c","o","n","t","e","n","t",":","<LF>","<LF>">>

\* "\n\nQuestion: "
QA_PROMPT_QUESTION == <<"<LF>","<LF>","Q","u","e","s","t","i","o","n",":"," ">>

\* "\n\nAnswer:"
QA_PROMPT_TAIL == <<"<LF>","<LF>","A","n","s","w","e","r",":">>

\* "Cannot read properties of undefined (reading 'method')"
MSG_METHOD_UNDEFINED ==
    <<"C","a","n","n","o","t"," ","r","e","a","d"," ","p","r","o","p","e","r","t","i","e","s",
       " ","o","f"," ","u","n","d","e","f","i","n","e","d"," ","(","r","e","a","d","i","n","g",
       " ","'","m","e","t","h","o","d","'",")">>

\* a text is truthy when it is defined and not the empty string
TruthyText(opt) == opt.some /\ TextLength(opt.v) > 0

\* the InvokeModelCommand of answerQuestion: the prompt around the text, cut to
\* 3000 characters, and the question
AnswerCommand(extractedText, question) ==
    [modelId |-> MODEL_ID,
     inputText |-> [head |-> QA_PROMPT_HEAD,
                    text |-> IF TextLength(extractedText) > MAX_TEXT_LENGTH
                             THEN TextPrefix(extractedText, MAX_TEXT_LENGTH)
                             ELSE extractedText,
                    ellipsis |-> TextLength(extractedText) > MAX_TEXT_LENGTH,
                    mid |-> QA_PROMPT_QUESTION,
                    question |-> question,
                    tail |-> QA_PROMPT_TAIL]]

\* answerQuestion after the model replied: results[0].outputText.trim(), every
\* error of the try block re-thrown as 'AI processing failed: ...'
AnswerFinish(reply) ==
    LET caught == IF reply.kind = "throw" THEN reply.error
                  ELSE Err(NAME_TYPE_ERROR, MSG_RESULTS_UNDEFINED, "runtime", TRUE)
    IN  IF reply.kind = "return" /\ reply.outputText.some
        THEN [kind |-> "return", answer |-> Trim(reply.outputText.v)]
        ELSE [kind |-> "throw",
              error |-> NewError(MSG_AI_FAILED \o
                                 (IF caught.inst THEN caught.message ELSE MSG_UNKNOWN_ERROR))]

\* the catch block of the Q&A handler
QaErrorResponse(err) ==
    Response(500, [error |-> MSG_QA_FAILED,
                   details |-> IF err.inst THEN err.message ELSE MSG_UNKNOWN_ERROR])

\* faulty variant of QaBegin: the question is not validated
QaBegin_QuestionNotChecked(ev) ==
    IF ~ev.http.some
    THEN [kind |-> "escape",
          error |-> Err(NAME_TYPE_ERROR, MSG_METHOD_UNDEFINED, "runtime", TRUE)]
    ELSE IF ev.http.v = METHOD_OPTIONS
    THEN [kind |-> "respond", response |-> Response(200, [raw |-> <<>>])]
    ELSE IF ev.body = "none"
    THEN [kind |-> "respond", response |-> Response(400, [error |-> MSG_NO_INPUT])]
    ELSE IF ev.body = "malformed"
    THEN [kind |-> "respond",
          response |-> QaErrorResponse(Err(NAME_SYNTAX_ERROR, MSG_JSON_SYNTAX, "runtime", TRUE))]
    ELSE IF ~TruthyText(ev.extractedText)
    THEN [kind |-> "respond",
          response |-> Response(400, [error |-> MSG_MISSING_FIELDS, hint |-> MSG_HINT])]
    ELSE [kind |-> "send",
          command |-> AnswerCommand(ev.extractedText.v,
                                    IF ev.question.some THEN ev.question.v ELSE <<>>)]

\* the Q&A handler up to its first await: the exception of reading
\* requestContext.http.method outside the try block, a response, or the
\* InvokeModelCommand
QaBegin(ev) ==
    IF ~ev.http.some
    THEN [kind |-> "escape",
          error |-> Err(NAME_TYPE_ERROR, MSG_METHOD_UNDEFINED, "runtime", TRUE)]
    ELSE IF ev.http.v = METHOD_OPTIONS
    THEN [kind |-> "respond", response |-> Response(200, [raw |-> <<>>])]
    ELSE IF ev.body = "none"
    THEN [kind |-> "respond", response |-> Response(400, [error |-> MSG_NO_INPUT])]
    ELSE IF ev.body = "malformed"
    THEN [kind |-> "respond",
          response |-> QaErrorResponse(Err(NAME_SYNTAX_ERROR, MSG_JSON_SYNTAX, "runtime", TRUE))]
    ELSE IF ~TruthyText(ev.extractedText) \/ ~Truthy(ev.question)
    THEN [kind |-> "respond",
          response |-> Response(400, [error |-> MSG_MISSING_FIELDS, hint |-> MSG_HINT])]
    ELSE [kind |-> "send", command |-> AnswerCommand(ev.extractedText.v, ev.question.v)]

\* the Q&A handler once answerQuestion has returned or thrown
QaAfterAnswer(ev, outcome) ==
    IF outcome.kind = "throw" THEN QaErrorResponse(outcome.error)
    ELSE Response(200, [question |-> ev.question.v, answer |-> outcome.answer])

----------------------------------------------------------------------------
(* The requests and the collaborators' replies the model draws from *)

\* "%PDF-"
B_PDF_SIG == <<37, 80, 68, 70, 45>>

\* "%PDF-%%EOF"
B_PDF_EOF == <<37, 80, 68, 70, 45, 37, 37, 69, 79, 70>>

\* "%PDF"
B_PDF_SHORT == <<37, 80, 68, 70>>

\* "%pdf-"
B_PDF_LOWER == <<37, 112, 100, 102, 45>>

\* "Hi"
B_HI == <<72, 105>>

\* "H" and U+00E9 in two bytes
B_ACCENT == <<72, 195, 169>>

\* a byte that is never part of UTF-8
B_FF == <<255>>

\* a lead byte without its continuation
B_LEAD == <<195>>

\* " "
B_SPACE == <<32>>

\* pads that put a buffer at and next to the sizes 1024 and 10 MB
LargePads ==
    {TAIL_BYTES - 5, TAIL_BYTES - 4, INLINE_MAX_BYTES - 5, INLINE_MAX_BYTES - 4}

Buffers ==
    {Buf(h, 0) : h \in {<<>>, B_PDF_SIG, B_PDF_EOF, B_PDF_SHORT, B_PDF_LOWER, B_HI,
                        B_ACCENT, B_FF, B_LEAD, B_SPACE}}
    \cup {Buf(h, p) : h \in {B_PDF_SIG, B_PDF_EOF, B_PDF_SHORT, B_HI}, p \in LargePads}

FileNames ==
    {FN_PDF, FN_PDF_UPPER, FN_PDF_MIXED, FN_PDF_BARE, FN_PDF_AFTER_TXT, FN_TXT,
     FN_TXT_UPPER, FN_JPG, FN_JPEG, FN_PNG, FN_TIF, FN_TIFF, FN_EXE, FN_PDFX,
     FN_PDF_BAK, FN_DOT, FN_NO_DOT, FN_NO_DOT_PDF, FN_NO_DOT_F, <<>>}

\* the events of the upload handler; fileBytes is the payload that
\* Buffer.from(fileBase64, 'base64') yields, undefined when the field is missing
Events ==
    {[body |-> b, fileName |-> None, fileBytes |-> None] : b \in {"none", "malformed"}}
    \cup {[body |-> "json", fileName |-> n, fileBytes |-> f] :
            n \in {None} \cup {Some(x) : x \in FileNames},
            f \in {None} \cup {Some(x) : x \in Buffers}}

NoEvent == [body |-> "none", fileName |-> None, fileBytes |-> None]

\* the arguments of a direct call of extractText
DirectArgs ==
    {[fileBuffer |-> b, ext |-> e, s3Bucket |-> sb, s3Key |-> sk] :
        b \in Buffers,
        e \in {EXT_PDF, EXT_TXT, EXT_PNG, EXT_JPEG, EXT_EXE, EXT_PDF_UPPER},
        sb \in {None, Some(<<>>), Some(BUCKET_NAME)},
        sk \in {None, Some(<<>>), Some(KEY_1)}}

NoArgs == [fileBuffer |-> Buf(<<>>, 0), ext |-> <<>>, s3Bucket |-> None, s3Key |-> None]

NoLocal ==
    [ext |-> <<>>, fileBuffer |-> Buf(<<>>, 0), documentId |-> <<>>, key |-> <<>>,
     extractedText |-> Text(<<>>, 0)]

NoOutcome == [kind |-> "none"]

\* crypto.randomUUID()
UUIDs == {UUID_1, UUID_2}

\* the blocks of a DetectDocumentText result
BlockValues ==
    {[BlockType |-> "LINE", Text |-> Some(TXT_HI)],
     [BlockType |-> "LINE", Text |-> Some(TXT_OK)],
     [BlockType |-> "LINE", Text |-> Some(TXT_SPACE)],
     [BlockType |-> "LINE", Text |-> None],
     [BlockType |-> "WORD", Text |-> Some(TXT_NO)],
     [BlockType |-> "PAGE", Text |-> None]}

\* "Invoice"
TXT_INVOICE == <<"I","n","v","o","i","c","e">>

\* "123"
TXT_123 == <<"1","2","3">>

\* "Total: 42"
TXT_TOTAL == <<"T","o","t","a","l",":"," ","4","2">>

\* the blocks of the scanned invoice: LINE "Invoice", WORD "123", LINE "Total: 42"
ExampleBlocks ==
    <<[BlockType |-> "LINE", Text |-> Some(TXT_INVOICE)],
      [BlockType |-> "WORD", Text |-> Some(TXT_123)],
      [BlockType |-> "LINE", Text |-> Some(TXT_TOTAL)]>>

BlockLists == UNION {[1..n -> BlockValues] : n \in 0..MaxBlocks} \cup {ExampleBlocks}

TextractErrors ==
    {Err(NAME_UNSUPPORTED_DOC, MSG_UNSUPPORTED_FORMAT, "textract", TRUE),
     Err(NAME_INVALID_PARAM, MSG_INVALID_PARAMETERS, "textract", TRUE),
     Err(NAME_THROTTLING, MSG_RATE_EXCEEDED, "textract", TRUE),
     Err(NAME_THROTTLING, <<>>, "textract", TRUE),
     Err(NAME_ACCESS_DENIED, MSG_NOT_AUTHORIZED, "textract", TRUE),
     Err(NAME_INVALID_S3, MSG_INVALID_S3, "textract", TRUE),
     Err(NAME_INTERNAL, MSG_INTERNAL, "textract", TRUE),
     Err(NAME_INTERNAL, <<>>, "textract", TRUE),
     Err(NAME_TIMEOUT, MSG_TIMED_OUT, "textract", TRUE)}

TextractReplies ==
    {[kind |-> "return", Blocks |-> None]}
    \cup {[kind |-> "return", Blocks |-> Some(l)] : l \in BlockLists}
    \cup {[kind |-> "throw", error |-> e] : e \in TextractErrors}

S3Errors ==
    {Err(NAME_ACCESS_DENIED, MSG_NOT_AUTHORIZED, "s3", TRUE),
     Err(NAME_NO_SUCH_BUCKET, MSG_NO_SUCH_BUCKET, "s3", TRUE),
     Err(NAME_INVALID_REQUEST, MSG_INVALID_REQUEST, "s3", TRUE),
     Err(<<>>, <<>>, "s3", FALSE)}

S3Replies == {[kind |-> "return"]} \cup {[kind |-> "throw", error |-> e] : e \in S3Errors}

BedrockErrors ==
    {Err(NAME_VALIDATION, MSG_VALIDATION, "bedrock", TRUE),
     Err(NAME_THROTTLING, MSG_RATE_EXCEEDED, "bedrock", TRUE),
     Err(NAME_VALIDATION, MSG_MODEL_EMPTY, "bedrock", TRUE)}

BedrockReplies ==
    {[kind |-> "return", outputText |-> Some(OUT_SUMMARY)],
     [kind |-> "return", outputText |-> None]}
    \cup {[kind |-> "throw", error |-> e] : e \in BedrockErrors}

----------------------------------------------------------------------------
(* The Q&A requests and the replies of the model to them *)

\* "POST"
METHOD_POST == <<"P","O","S","T">>

\* "What?"
Q_WHAT == <<"W","h","a","t","?">>

\* the events of the Q&A handler: http is requestContext.http.method, undefined
\* for an event without requestContext.http (the REST API proxy event); body
\* is "malformed" when JSON.parse or the destructuring of its result throws
QaEvents ==
    {[http |-> h, body |-> b, extractedText |-> None, question |-> None] :
        h \in {None, Some(METHOD_OPTIONS), Some(METHOD_POST)},
        b \in {"none", "malformed"}}
    \cup {[http |-> h, body |-> "json", extractedText |-> t, question |-> q] :
            h \in {None, Some(METHOD_OPTIONS), Some(METHOD_POST)},
            t \in {None, Some(Text(<<>>, 0)), Some(Text(TXT_HI, 0)),
                   Some(Text(TXT_HI, MAX_TEXT_LENGTH - 2)),
                   Some(Text(TXT_HI, MAX_TEXT_LENGTH - 1))},
            q \in {None, Some(<<>>), Some(TXT_SPACE), Some(Q_WHAT)}}

QaBedrockReplies ==
    BedrockReplies \cup {[kind |-> "throw", error |-> Err(<<>>, <<>>, "bedrock", FALSE)]}

----------------------------------------------------------------------------
(* The state machine: one invocation of the upload handler, one direct call *)
(* of extractText, or one invocation of the Q&A handler, cut at its awaits  *)

Init ==
    /\ entry \in {"handler", "extractText", "qa"}
    /\ event \in (IF entry = "handler" THEN Events
                  ELSE IF entry = "qa" THEN QaEvents
                  ELSE {NoEvent})
    /\ args \in (IF entry = "extractText" THEN DirectArgs ELSE {NoArgs})
    /\ pc = "start"
    /\ local = NoLocal
    /\ calls = <<>>
    /\ replies = <<>>
    /\ warned = FALSE
    /\ extractOutcome = NoOutcome
    /\ response = NoResponse
    /\ reqs = <<>>
    /\ bucket = <<>>

Call(svc, command) == [svc |-> svc, command |-> command]

Reply(svc, reply) == [svc |-> svc, reply |-> reply]

\* the handler from its start to the response or to the await of the put
HandlerStart ==
    /\ entry = "handler"
    /\ pc = "start"
    /\ \E documentId \in UUIDs :
         LET r == HandlerBegin(event, documentId)
         IN  /\ pc' = IF r.kind = "send" THEN "awaitPut" ELSE "done"
             /\ response' = IF r.kind = "respond" THEN r.response
                            ELSE IF r.kind = "throw" THEN ErrorResponse(r.error)
                            ELSE response
             /\ calls' = IF r.kind = "send" THEN Append(calls, Call("s3", r.command))
                         ELSE calls
             /\ local' = IF r.kind = "send"
                         THEN [local EXCEPT !.ext = r.ext, !.fileBuffer = r.fileBuffer,
                                            !.documentId = r.documentId, !.key = r.key]
                         ELSE local
    /\ UNCHANGED <<reqs, bucket, entry, event, args, replies, warned, extractOutcome>>

\* the handler from the outcome of extractText to the response or to the await
\* of the summary
HandlerResume(outcome, callsNow) ==
    LET r == HandlerAfterExtract(outcome)
    IN  /\ extractOutcome' = outcome
        /\ pc' = IF r.kind = "send" THEN "awaitSummary" ELSE "done"
        /\ response' = IF r.kind = "respond" THEN r.response ELSE response
        /\ calls' = IF r.kind = "send" THEN Append(callsNow, Call("bedrock", r.command))
                    ELSE callsNow
        /\ local' = IF r.kind = "send" THEN [local EXCEPT !.extractedText = outcome.text]
                    ELSE local

\* extractText from its call to its first await (or to its return or throw),
\* and the caller's continuation
ExtractEnter(a) ==
    LET b == ExtractBegin(a)
    IN  /\ args' = a
        /\ warned' = ExtractWarns(a)
        /\ IF b.kind = "send"
           THEN /\ calls' = Append(calls, Call("textract", [Document |-> b.Document]))
                /\ pc' = "awaitTextract"
                /\ UNCHANGED <<local, extractOutcome, response>>
           ELSE IF entry = "handler"
           THEN HandlerResume(b, calls)
           ELSE /\ extractOutcome' = b
                /\ pc' = "done"
                /\ UNCHANGED <<local, calls, response>>

\* the put failed: the handler's catch block answers
PutThrows ==
    /\ pc = "awaitPut"
    /\ \E e \in S3Errors :
         /\ replies' = Append(replies, Reply("s3", [kind |-> "throw", error |-> e]))
         /\ response' = ErrorResponse(e)
    /\ pc' = "done"
    /\ UNCHANGED <<reqs, bucket, entry, event, args, local, calls, warned, extractOutcome>>

\* the put succeeded: the handler calls extractText
PutReturns ==
    /\ pc = "awaitPut"
    /\ replies' = Append(replies, Reply("s3", [kind |-> "return"]))
    /\ ExtractEnter(HandlerExtractArgs(local))
    /\ UNCHANGED <<reqs, bucket, entry, event>>

\* a direct call of extractText
ExtractTextCall ==
    /\ entry = "extractText"
    /\ pc = "start"
    /\ ExtractEnter(args)
    /\ UNCHANGED <<reqs, bucket, entry, event, replies>>

\* faulty variant of ExtractLeave: a failed by-reference call is followed by a
\* second call with the bytes inline
ExtractLeave_FallbackToBytes(reply) ==
    IF reply.kind = "throw" /\ "S3Object" \in DOMAIN calls[Len(calls)].command.Document
    THEN /\ replies' = Append(replies, Reply("textract", reply))
         /\ calls' = Append(calls, Call("textract", [Document |-> [Bytes |-> args.fileBuffer]]))
         /\ UNCHANGED <<reqs, bucket, entry, event, args, pc, local, warned, extractOutcome,
                        response>>
    ELSE /\ replies' = Append(replies, Reply("textract", reply))
         /\ IF entry = "handler"
            THEN HandlerResume(ExtractFinish(reply), calls)
            ELSE /\ extractOutcome' = ExtractFinish(reply)
                 /\ pc' = "done"
                 /\ UNCHANGED <<local, calls, response>>
         /\ UNCHANGED <<reqs, bucket, entry, event, args, warned>>

\* extractText after the reply of the extraction service, and its caller
ExtractLeave(reply) ==
    /\ replies' = Append(replies, Reply("textract", reply))
    /\ IF entry = "handler"
       THEN HandlerResume(ExtractFinish(reply), calls)
       ELSE /\ extractOutcome' = ExtractFinish(reply)
            /\ pc' = "done"
            /\ UNCHANGED <<local, calls, response>>
    /\ UNCHANGED <<reqs, bucket, entry, event, args, warned>>

TextractReturns ==
    /\ pc = "awaitTextract"
    /\ \E r \in TextractReplies : r.kind = "return" /\ ExtractLeave(r)

TextractThrows ==
    /\ pc = "awaitTextract"
    /\ \E r \in TextractReplies : r.kind = "throw" /\ ExtractLeave(r)

\* generateSummary after the reply of the model, and the handler's response
SummaryLeave(reply) ==
    /\ replies' = Append(replies, Reply("bedrock", reply))
    /\ response' = HandlerAfterSummary(local, event, SummaryFinish(reply))
    /\ pc' = "done"
    /\ UNCHANGED <<reqs, bucket, entry, event, args, local, calls, warned, extractOutcome>>

SummaryReturns ==
    /\ pc = "awaitSummary"
    /\ \E r \in BedrockReplies : r.kind = "return" /\ SummaryLeave(r)

SummaryThrows ==
    /\ pc = "awaitSummary"
    /\ \E r \in BedrockReplies : r.kind = "throw" /\ SummaryLeave(r)

\* the Q&A handler from its start to the response, to the exception that
\* leaves it, or to the await of the model
QaStart ==
    /\ entry = "qa"
    /\ pc = "start"
    /\ LET r == QaBegin(event)
       IN  /\ pc' = IF r.kind = "send" THEN "awaitAnswer"
                    ELSE IF r.kind = "escape" THEN "escaped"
                    ELSE "done"
           /\ response' = IF r.kind = "respond" THEN r.response ELSE response
           /\ calls' = IF r.kind = "send" THEN Append(calls, Call("bedrock", r.command))
                       ELSE calls
    /\ UNCHANGED <<reqs, bucket, entry, event, args, local, replies, warned, extractOutcome>>

\* answerQuestion after the reply of the model, and the Q&A handler's response
AnswerLeave(reply) ==
    /\ replies' = Append(replies, Reply("bedrock", reply))
    /\ response' = QaAfterAnswer(event, AnswerFinish(reply))
    /\ pc' = "done"
    /\ UNCHANGED <<reqs, bucket, entry, event, args, local, calls, warned, extractOutcome>>

AnswerReturns ==
    /\ pc = "awaitAnswer"
    /\ \E r \in QaBedrockReplies : r.kind = "return" /\ AnswerLeave(r)

AnswerThrows ==
    /\ pc = "awaitAnswer"
    /\ \E r \in QaBedrockReplies : r.kind = "throw" /\ AnswerLeave(r)

Next ==
    \/ HandlerStart
    \/ PutThrows
    \/ PutReturns
    \/ ExtractTextCall
    \/ TextractReturns
    \/ TextractThrows
    \/ SummaryReturns
    \/ SummaryThrows
    \/ QaStart
    \/ AnswerReturns
    \/ AnswerThrows

Spec == Init /\ [][Next]_vars

----------------------------------------------------------------------------
(* Concurrent invocations of the upload handler: each request runs the same *)
(* steps on its own locals; the clients s3, textract and bedrock and        *)
(* BUCKET_NAME are the only module-level values, and none is written after  *)
(* construction.  The bucket is the one store the requests share: a put     *)
(* writes it and a by-reference DetectDocumentText reads it.                *)

\* the number of requests in flight together
NumRequests == 2

Requests == 1..NumRequests

Digits == <<"1", "2", "3", "4", "5", "6", "7", "8", "9">>

\* the values of crypto.randomUUID(): no value is returned twice
RequestIds == {<<"d", Digits[k]>> : k \in Requests}

\* the uploads that run together: two pdf files of the same name and
\* different content, a text file and an image
ConcurrentEvents ==
    {[body |-> "json", fileName |-> Some(FN_PDF), fileBytes |-> Some(Buf(B_PDF_SIG, 0))],
     [body |-> "json", fileName |-> Some(FN_PDF), fileBytes |-> Some(Buf(B_PDF_EOF, 0))],
     [body |-> "json", fileName |-> Some(FN_TXT), fileBytes |-> Some(Buf(B_HI, 0))],
     [body |-> "json", fileName |-> Some(FN_PNG), fileBytes |-> Some(Buf(B_HI, 0))]}

\* one invocation: its event, its position, its locals and its history
NewRequest(ev) ==
    [event |-> ev, pc |-> "start", local |-> NoLocal, calls |-> <<>>, replies |-> <<>>,
     extractOutcome |-> NoOutcome, response |-> NoResponse, read |-> None]

\* the extraction service on a document: one LINE block that spells the bytes
\* it was given or found under the key
Ocr(document) == <<[BlockType |-> "LINE", Text |-> Some(Utf8Decode(document.bytes))]>>

ConcurrentS3Error == Err(NAME_ACCESS_DENIED, MSG_NOT_AUTHORIZED, "s3", TRUE)

ConcurrentTextractError == Err(NAME_THROTTLING, MSG_RATE_EXCEEDED, "textract", TRUE)

ConcurrentBedrockReplies ==
    {[kind |-> "return", outputText |-> Some(OUT_SUMMARY)],
     [kind |-> "throw", error |-> Err(NAME_THROTTLING, MSG_RATE_EXCEEDED, "bedrock", TRUE)]}

\* the document ids drawn so far
UsedIds == {reqs[i].local.documentId : i \in Requests} \ {<<>>}

\* the request from the outcome of extractText to the response or to the await
\* of the summary
RequestResume(r, outcome) ==
    LET a == HandlerAfterExtract(outcome)
    IN  [r EXCEPT !.extractOutcome = outcome,
                  !.pc = IF a.kind = "send" THEN "awaitSummary" ELSE "done",
                  !.response = IF a.kind = "respond" THEN a.response ELSE @,
                  !.calls = IF a.kind = "send" THEN Append(@, Call("bedrock", a.command))
                            ELSE @,
                  !.local = IF a.kind = "send" THEN [@ EXCEPT !.extractedText = outcome.text]
                            ELSE @]

\* the request from its call of extractText to the await of the extraction
\* service, or on to the response or to the await of the summary
RequestExtract(r) ==
    LET b == ExtractBegin(HandlerExtractArgs(r.local))
    IN  IF b.kind = "send"
        THEN [r EXCEPT !.calls = Append(@, Call("textract", [Document |-> b.Document])),
                       !.pc = "awaitTextract"]
        ELSE RequestResume(r, b)

\* the steps of request i; each reads and writes the request's own record,
\* and the bucket only through the collaborators
ConcurrentStart(i) ==
    /\ reqs[i].pc = "start"
    /\ \E documentId \in RequestIds \ UsedIds :
         LET r == reqs[i]
             b == HandlerBegin(r.event, documentId)
         IN  reqs' = [reqs EXCEPT ![i] =
               [r EXCEPT !.pc = IF b.kind = "send" THEN "awaitPut" ELSE "done",
                         !.response = IF b.kind = "respond" THEN b.response
                                      ELSE IF b.kind = "throw" THEN ErrorResponse(b.error)
                                      ELSE @,
                         !.calls = IF b.kind = "send" THEN Append(@, Call("s3", b.command))
                                   ELSE @,
                         !.local = IF b.kind = "send"
                                   THEN [@ EXCEPT !.ext = b.ext, !.fileBuffer = b.fileBuffer,
                                                  !.documentId = b.documentId, !.key = b.key]
                                   ELSE @]]
    /\ UNCHANGED <<bucket, entry, event, args, pc, local, calls, replies, warned,
                   extractOutcome, response>>

ConcurrentPutThrows(i) ==
    /\ reqs[i].pc = "awaitPut"
    /\ reqs' = [reqs EXCEPT ![i] =
         [@ EXCEPT !.replies = Append(@, Reply("s3", [kind |-> "throw",
                                                      error |-> ConcurrentS3Error])),
                   !.response = ErrorResponse(ConcurrentS3Error),
                   !.pc = "done"]]
    /\ UNCHANGED <<bucket, entry, event, args, pc, local, calls, replies, warned,
                   extractOutcome, response>>

\* the put stores the body under the key, replacing what was there
ConcurrentPutReturns(i) ==
    /\ reqs[i].pc = "awaitPut"
    /\ LET command == reqs[i].calls[1].command
       IN  bucket' = [k \in DOMAIN bucket \cup {command.Key} |->
                        IF k = command.Key THEN command.Body ELSE bucket[k]]
    /\ reqs' = [reqs EXCEPT ![i] =
         RequestExtract([@ EXCEPT !.replies = Append(@, Reply("s3", [kind |-> "return"]))])]
    /\ UNCHANGED <<entry, event, args, pc, local, calls, replies, warned,
                   extractOutcome, response>>

\* the service reads the document, inline or from the bucket, and replies
ConcurrentTextractReturns(i) ==
    /\ reqs[i].pc = "awaitTextract"
    /\ LET Document == reqs[i].calls[Len(reqs[i].calls)].command.Document
           byReference == "S3Object" \in DOMAIN Document
       IN  /\ byReference => Document.S3Object.Name \in DOMAIN bucket
           /\ LET document == IF byReference THEN bucket[Document.S3Object.Name]
                              ELSE Document.Bytes
                  reply == [kind |-> "return", Blocks |-> Some(Ocr(document))]
              IN  reqs' = [reqs EXCEPT ![i] =
                    RequestResume([@ EXCEPT !.replies = Append(@, Reply("textract", reply)),
                                            !.read = Some(document)],
                                  ExtractFinish(reply))]
    /\ UNCHANGED <<bucket, entry, event, args, pc, local, calls, replies, warned,
                   extractOutcome, response>>

ConcurrentTextractThrows(i) ==
    /\ reqs[i].pc = "awaitTextract"
    /\ LET reply == [kind |-> "throw", error |-> ConcurrentTextractError]
       IN  reqs' = [reqs EXCEPT ![i] =
             RequestResume([@ EXCEPT !.replies = Append(@, Reply("textract", reply))],
                           ExtractFinish(reply))]
    /\ UNCHANGED <<bucket, entry, event, args, pc, local, calls, replies, warned,
                   extractOutcome, response>>

ConcurrentSummaryReplies(i) ==
    /\ reqs[i].pc = "awaitSummary"
    /\ \E reply \in ConcurrentBedrockReplies :
         reqs' = [reqs EXCEPT ![i] =
           [@ EXCEPT !.replies = Append(@, Reply("bedrock", reply)),
                     !.response = HandlerAfterSummary(reqs[i].local, reqs[i].event,
                                                      SummaryFinish(reply)),
                     !.pc = "done"]]
    /\ UNCHANGED <<bucket, entry, event, args, pc, local, calls, replies, warned,
                   extractOutcome, response>>

InitConcurrent ==
    /\ reqs \in [Requests -> {NewRequest(ev) : ev \in ConcurrentEvents}]
    /\ bucket = <<>>
    /\ entry = "concurrent"
    /\ event = NoEvent
    /\ args = NoArgs
    /\ pc = "done"
    /\ local = NoLocal
    /\ calls = <<>>
    /\ replies = <<>>
    /\ warned = FALSE
    /\ extractOutcome = NoOutcome
    /\ response = NoResponse

NextConcurrent ==
    \/ \E i \in Requests : ConcurrentStart(i)
    \/ \E i \in Requests : ConcurrentPutThrows(i)
    \/ \E i \in Requests : ConcurrentPutReturns(i)
    \/ \E i \in Requests : ConcurrentTextractReturns(i)
    \/ \E i \in Requests : ConcurrentTextractThrows(i)
    \/ \E i \in Requests : ConcurrentSummaryReplies(i)

SpecConcurrent == InitConcurrent /\ [][NextConcurrent]_vars

----------------------------------------------------------------------------
(* Invocations of the upload handler alone, run to their end: the runtime   *)
(* resumes the handler whenever the promise it awaits has settled, and a    *)
(* collaborator's promise settles by returning or by throwing               *)

InitHandler == Init /\ entry = "handler"

NextHandler ==
    \/ HandlerStart
    \/ PutThrows
    \/ PutReturns
    \/ TextractReturns
    \/ TextractThrows
    \/ SummaryReturns
    \/ SummaryThrows

\* the positions of the upload handler
HandlerPositions == {"start", "awaitPut", "awaitTextract", "awaitSummary", "done"}

\* the handler moves on: the runtime runs the code up to its next await or to
\* its return, and an awaited call of a service settles, resolved or rejected.
\* Every step of NextHandler changes pc, and one is possible at every position
\* but "done", so that weak fairness of this step is weak fairness of NextHandler
HandlerProceeds == pc # "done" /\ pc' \in HandlerPositions \ {pc}

SpecHandlerFair == InitHandler /\ [][NextHandler]_vars /\ WF_pc(HandlerProceeds)

----------------------------------------------------------------------------
(* Vocabulary of the properties *)

\* the handler has produced its response
Responded == entry = "handler" /\ pc = "done"

\* the response is a failure with this user-visible message
FailedWith(statusCode, message) ==
    /\ Responded
    /\ response.statusCode = statusCode
    /\ "error" \in DOMAIN response.body
    /\ response.body.error = message

\* a command has been sent to this collaborator
IssuedTo(svc) == \E i \in 1..Len(calls) : calls[i].svc = svc

\* extractText has been called
ExtractEntered == pc = "awaitTextract" \/ extractOutcome.kind # "none"

\* extractText threw an error with this message
ExtractThrew(message) ==
    extractOutcome.kind = "throw" /\ extractOutcome.error.message = message

\* the collaborator threw, and these are the errors it threw
ThrownBy(svc) ==
    {replies[i].reply.error : i \in {j \in 1..Len(replies) :
        replies[j].svc = svc /\ replies[j].reply.kind = "throw"}}

\* the first n bytes of a buffer
FirstBytes(b, n) == SubSeq(b.bytes \o [i \in 1..Min(b.pad, n) |-> 32], 1, Min(n, BufLength(b)))

\* a stored reference is given: a bucket and a key, both non-empty
HasReference(a) == Truthy(a.s3Bucket) /\ Truthy(a.s3Key)

RECURSIVE SuffixFromLastDot(_)
\* the suffix of a name that starts at its last '.', <<>> for a name without one
SuffixFromLastDot(s) ==
    IF Len(s) = 0 THEN <<>>
    ELSE IF Len(SuffixFromLastDot(Tail(s))) > 0 THEN SuffixFromLastDot(Tail(s))
    ELSE IF Head(s) = "." THEN s
    ELSE <<>>

\* the supported set of the specification, as extensions with their dot
SupportedExtensions == {EXT_PDF, EXT_TXT, EXT_JPG, EXT_JPEG, EXT_PNG, EXT_TIF, EXT_TIFF}

\* the request carries a file name and a payload
HasFile == entry = "handler" /\ event.body = "json" /\ event.fileName.some /\ event.fileBytes.some

----------------------------------------------------------------------------
(* C1 *)

\* C1 (as claimed): a request rejected by format validation (unsupported
\* extension, empty payload, pdf without the '%PDF-' signature) is answered
\* before any command has been sent to a collaborator.
NoCallBeforeFormatRejection ==
    (\/ FailedWith(400, MSG_UNSUPPORTED_TYPE)
     \/ FailedWith(400, MSG_EMPTY_FILE)
     \/ FailedWith(400, MSG_INVALID_PDF))
    => calls = <<>>

----------------------------------------------------------------------------
(* C2 *)

\* C2 (as claimed): a pdf given to extractText without a stored reference and
\* with more than 10 MiB is never sent to the extraction service, and fails.
InlinePdfOverLimitNotSent ==
    (/\ ExtractEntered
     /\ args.ext = EXT_PDF
     /\ ~HasReference(args)
     /\ BufLength(args.fileBuffer) > INLINE_MAX_BYTES)
    => (~IssuedTo("textract") /\ extractOutcome.kind = "throw")

----------------------------------------------------------------------------
(* C3 *)

\* the request failed because a collaborator threw, for a reason the caller
\* cannot fix: the put, the summary, or the extraction service with an error
\* other than the two rejections
ServerSideFailure ==
    \/ ThrownBy("s3") # {}
    \/ ThrownBy("bedrock") # {}
    \/ \E e \in ThrownBy("textract") :
         e.name # NAME_UNSUPPORTED_DOC /\ e.name # NAME_INVALID_PARAM

\* C3 (as claimed): every request that fails for a reason the caller cannot fix
\* is answered with status 500, whatever the collaborator's message says.
ServerFailureAnswered500 ==
    (Responded /\ ServerSideFailure) => response.statusCode = 500

----------------------------------------------------------------------------
(* C4 *)

\* C4: whenever the extraction service is invoked, a pdf with a stored
\* reference is sent as that S3 object, an image is sent as its bytes even when
\* a reference is given, and a pdf without a reference is sent as its bytes;
\* and every image and every pdf with the signature is sent exactly once.
StrategySelection ==
    /\ \A i \in 1..Len(calls) :
         calls[i].svc = "textract" =>
            LET d == calls[i].command.Document
            IN  IF args.ext = EXT_PDF /\ HasReference(args)
                THEN /\ DOMAIN d = {"S3Object"}
                     /\ d.S3Object = [Bucket |-> args.s3Bucket.v, Name |-> args.s3Key.v]
                ELSE /\ args.ext = EXT_PDF \/ args.ext \in SupportedExtensions \ {EXT_PDF, EXT_TXT}
                     /\ DOMAIN d = {"Bytes"}
                     /\ d.Bytes = args.fileBuffer
    /\ (/\ ExtractEntered
        /\ \/ args.ext \in SupportedExtensions \ {EXT_PDF, EXT_TXT}
           \/ args.ext = EXT_PDF /\ FirstBytes(args.fileBuffer, 5) = B_PDF_SIG)
       => Cardinality({i \in 1..Len(calls) : calls[i].svc = "textract"}) = 1

\* C4 witness: an image stored by the handler, so with a reference, has been
\* sent to the extraction service as bytes.
StrategySelectionWitness ==
    /\ entry = "handler"
    /\ pc = "awaitTextract"
    /\ args.ext = EXT_PNG
    /\ HasReference(args)
    /\ DOMAIN calls[Len(calls)].command.Document = {"Bytes"}

----------------------------------------------------------------------------
(* C5 *)

\* C5: a txt document never reaches the extraction service and never fails in
\* extractText; the text extracted, and the extractedText of the 200 response,
\* is the UTF-8 decoding of the payload (for the bytes "H", 0xC3, 0xA9 the two
\* characters "H" and U+00E9), unchanged.
TxtDecodedVerbatim ==
    (ExtractEntered /\ args.ext = EXT_TXT) =>
        /\ ~IssuedTo("textract")
        /\ extractOutcome.kind = "return"
        /\ extractOutcome.text = Text(Utf8Decode(args.fileBuffer.bytes), args.fileBuffer.pad)
        /\ args.fileBuffer = Buf(B_ACCENT, 0) => extractOutcome.text = Text(<<"H", "<E9>">>, 0)
        /\ (Responded /\ response.statusCode = 200) =>
              /\ response.body.extractedText =
                    Text(Utf8Decode(event.fileBytes.v.bytes), event.fileBytes.v.pad)
              /\ event.fileBytes.v = args.fileBuffer

\* C5 witness: a txt upload of non-ASCII bytes has been answered with 200.
TxtDecodedVerbatimWitness ==
    /\ Responded
    /\ response.statusCode = 200
    /\ args.ext = EXT_TXT
    /\ event.fileBytes.v = Buf(B_ACCENT, 0)
    /\ response.body.extractedText = Text(<<"H", "<E9>">>, 0)

----------------------------------------------------------------------------
(* C6 *)

\* C6: once extractText is called with a non-empty pdf payload: if its first 5
\* bytes are not '%PDF-' it throws the invalid-signature failure, the handler
\* answers 400 with that message and the extraction service is never invoked,
\* whatever the size; if they are, the payload is sent to the extraction
\* service whether or not its last 1024 bytes hold '%%EOF', and no
\* invalid-signature failure is raised.
PdfSignatureCheck ==
    (ExtractEntered /\ args.ext = EXT_PDF /\ BufLength(args.fileBuffer) > 0) =>
        IF FirstBytes(args.fileBuffer, 5) # B_PDF_SIG
        THEN /\ ExtractThrew(MSG_INVALID_PDF)
             /\ ~IssuedTo("textract")
             /\ entry = "handler" => FailedWith(400, MSG_INVALID_PDF)
        ELSE /\ IssuedTo("textract")
             /\ ~ExtractThrew(MSG_INVALID_PDF)
             /\ ~FailedWith(400, MSG_INVALID_PDF)

\* C6 witness: a pdf upload of 10 MiB without the signature has been answered
\* with the invalid-signature failure.
PdfSignatureCheckWitness ==
    /\ FailedWith(400, MSG_INVALID_PDF)
    /\ args.fileBuffer = Buf(B_PDF_SHORT, INLINE_MAX_BYTES - 4)
    /\ ~IssuedTo("textract")

----------------------------------------------------------------------------
(* C7 *)

\* C7 (as claimed): whatever the file name, a request with an empty payload is
\* answered 400 'Empty or invalid file received'.
EmptyPayloadAlwaysInvalidFormat ==
    (HasFile /\ BufLength(event.fileBytes.v) = 0 /\ pc # "start")
    => FailedWith(400, MSG_EMPTY_FILE)

\* C7 (amended): a request with an empty payload is answered 400 at once, with
\* 'Empty or invalid file received' when the extension is supported and with
\* 'Unsupported file type' when it is not; nothing is stored or extracted.
EmptyPayloadRejected ==
    (HasFile /\ BufLength(event.fileBytes.v) = 0 /\ pc # "start") =>
        /\ calls = <<>>
        /\ ~ExtractEntered
        /\ IF ToLowerCase(SuffixFromLastDot(event.fileName.v)) \in SupportedExtensions
           THEN FailedWith(400, MSG_EMPTY_FILE)
           ELSE FailedWith(400, MSG_UNSUPPORTED_TYPE)

\* C7 witness: an empty payload under a supported extension has been rejected.
EmptyPayloadRejectedWitness ==
    /\ HasFile
    /\ event.fileName.v = FN_PDF
    /\ BufLength(event.fileBytes.v) = 0
    /\ FailedWith(400, MSG_EMPTY_FILE)

----------------------------------------------------------------------------
(* C8 *)

\* C8: the extension is the lower-cased suffix of the file name from its last
\* '.'; the request is answered 400 'Unsupported file type' exactly when that
\* suffix is not a supported extension, so always for a name without '.', and
\* never for a supported extension in any letter case.
UnsupportedIffExtensionOutsideSet ==
    (entry = "handler" /\ event.body = "json" /\ event.fileName.some /\ pc # "start") =>
        LET suffix == ToLowerCase(SuffixFromLastDot(event.fileName.v))
        IN  /\ Len(suffix) > 0 => ExtOf(event.fileName.v) = suffix
            /\ FailedWith(400, MSG_UNSUPPORTED_TYPE) <=> suffix \notin SupportedExtensions
            /\ (pc # "done" \/ extractOutcome.kind # "none") => local.ext = suffix

\* C8 witness: an upper-case '.PDF' name has passed the extension check and its
\* file is being stored.
UnsupportedIffExtensionOutsideSetWitness ==
    /\ entry = "handler"
    /\ event.fileName = Some(FN_PDF_UPPER)
    /\ pc = "awaitPut"
    /\ local.ext = EXT_PDF

----------------------------------------------------------------------------
(* C9 *)

\* C9: when the extraction service throws UnsupportedDocumentException or
\* InvalidParameterException, extractText throws a fixed message (naming
\* encryption, password protection and corruption, resp. a corrupted or
\* invalid format), whatever the service's message, and the handler answers
\* 400 with it.
ServiceRejectionAnswered400 ==
    \A e \in ThrownBy("textract") :
        /\ e.name = NAME_UNSUPPORTED_DOC =>
              /\ ExtractThrew(MSG_UNSUPPORTED_DOC)
              /\ Includes(MSG_UNSUPPORTED_DOC, KW_ENCRYPTED)
              /\ Includes(MSG_UNSUPPORTED_DOC, KW_PASSWORD)
              /\ Includes(MSG_UNSUPPORTED_DOC, KW_CORRUPTED)
              /\ entry = "handler" => FailedWith(400, MSG_UNSUPPORTED_DOC)
        /\ e.name = NAME_INVALID_PARAM =>
              /\ ExtractThrew(MSG_INVALID_PARAM)
              /\ Includes(MSG_INVALID_PARAM, KW_CORRUPTED)
              /\ entry = "handler" => FailedWith(400, MSG_INVALID_PARAM)

\* C9 witness: the extraction service has thrown UnsupportedDocumentException
\* for an uploaded pdf and the handler has answered 400.
ServiceRejectionAnswered400Witness ==
    /\ \E e \in ThrownBy("textract") : e.name = NAME_UNSUPPORTED_DOC
    /\ args.ext = EXT_PDF
    /\ FailedWith(400, MSG_UNSUPPORTED_DOC)

----------------------------------------------------------------------------
(* C10 *)

\* C10 (as claimed): every error of the extraction service with another name
\* and a message leaves extractText wrapped as
\* 'Text extraction failed: <service message>', whatever its name.
OtherServiceErrorsWrapped ==
    \A e \in ThrownBy("textract") :
        (e.name # NAME_UNSUPPORTED_DOC /\ e.name # NAME_INVALID_PARAM /\ Len(e.message) > 0)
        => ExtractThrew(MSG_EXTRACTION_FAILED \o e.message)

----------------------------------------------------------------------------
(* C11 *)

\* the replies of the extraction service so far that were results
TextractResults ==
    {replies[i].reply : i \in {j \in 1..Len(replies) :
        replies[j].svc = "textract" /\ replies[j].reply.kind = "return"}}

\* the blocks of a result that are LINE blocks with a text, in their order
LinesOf(reply) ==
    IF ~reply.Blocks.some THEN <<>>
    ELSE SelectSeq(reply.Blocks.v,
                   LAMBDA b : b.BlockType = "LINE" /\ b.Text.some /\ Len(b.Text.v) > 0)

\* every character of the texts of these blocks is white space: joined by
\* spaces they trim to nothing (no blocks at all included)
AllBlank(lines) ==
    \A i \in 1..Len(lines) : \A k \in 1..Len(lines[i].Text.v) : IsSpace(lines[i].Text.v[k])

\* every character of a text is white space
BlankText(t) == t.pad = 0 /\ \A k \in 1..Len(t.chars) : IsSpace(t.chars[k])

\* C11: when the service's result has no LINE text or only blank LINE text,
\* extractText throws the pipeline's "No text could be extracted" error and the
\* handler answers 400 with it; and no 200 response of a request that went to
\* the extraction service carries an empty or blank extractedText
BlankOcrTextRefused ==
    /\ \A r \in TextractResults :
         AllBlank(LinesOf(r)) =>
           /\ extractOutcome = [kind |-> "throw", error |-> NewError(MSG_NO_TEXT)]
           /\ entry = "handler" => FailedWith(400, MSG_NO_TEXT)
           /\ ~IssuedTo("bedrock")
    /\ (Responded /\ response.statusCode = 200 /\ IssuedTo("textract")) =>
         /\ TextLength(response.body.extractedText) > 0
         /\ ~BlankText(response.body.extractedText)

\* C11 witness: the handler answered 400 to a request whose OCR result held a
\* LINE block, all of it white space
BlankOcrTextRefusedWitness ==
    /\ Responded
    /\ \E r \in TextractResults :
         /\ Len(LinesOf(r)) > 0
         /\ AllBlank(LinesOf(r))
    /\ FailedWith(400, MSG_NO_TEXT)

----------------------------------------------------------------------------
(* C12 *)

\* the commands sent to the extraction service so far, by their place in calls
TextractCalls == {i \in 1..Len(calls) : calls[i].svc = "textract"}

\* the state of the request in the specification's state machine
PipelineState ==
    IF pc = "start" THEN "Validating"
    ELSE IF pc = "awaitPut" THEN "Validated"
    ELSE IF pc = "awaitTextract" THEN "Extracting"
    ELSE IF extractOutcome.kind = "return" THEN "Extracted"
    ELSE IF extractOutcome.kind = "throw" THEN "Failed"
    ELSE "Rejected"

TerminalStates == {"Rejected", "Extracted", "Failed"}

\* the moves of the state machine; a step of the program that meets no await
\* inside extractText passes through Extracting within the step
PipelineMoves ==
    {<<"Validating", "Rejected">>, <<"Validating", "Validated">>,
     <<"Validating", "Extracting">>, <<"Validating", "Extracted">>,
     <<"Validating", "Failed">>,
     <<"Validated", "Rejected">>, <<"Validated", "Extracting">>,
     <<"Validated", "Extracted">>, <<"Validated", "Failed">>,
     <<"Extracting", "Extracted">>, <<"Extracting", "Failed">>}

\* a step of the request in the state machine: a move of it, and nothing but
\* staying (with no further command to the extraction service) once terminal
PipelineStep ==
    /\ PipelineState' # PipelineState => <<PipelineState, PipelineState'>> \in PipelineMoves
    /\ PipelineState \in TerminalStates =>
         /\ PipelineState' = PipelineState
         /\ TextractCalls' = TextractCalls
         /\ extractOutcome' = extractOutcome

\* the extraction service is called at most once, and its failure ends the
\* extraction: the failed command is the last command of the request
SingleAttempt ==
    /\ Cardinality(TextractCalls) <= 1
    /\ ThrownBy("textract") # {} =>
         /\ PipelineState = "Failed"
         /\ pc = "done"
         /\ \A i \in TextractCalls : i = Len(calls)

\* C12: every step of a request is a move Validating -> {Rejected | Validated}
\* -> Extracting -> {Extracted | Failed} and a terminal state is never left; the
\* extraction service is called at most once, and after its failure no further
\* command is sent (no retry, no inline call after a failed by-reference call)
NoRetryNoFallback == [][PipelineStep]_vars /\ []SingleAttempt

\* C12 witness: a by-reference call failed and the request ended Failed with
\* that one command
NoRetryNoFallbackWitness ==
    /\ pc = "done"
    /\ ThrownBy("textract") # {}
    /\ \E i \in TextractCalls : "S3Object" \in DOMAIN calls[i].command.Document
    /\ PipelineState = "Failed"

----------------------------------------------------------------------------
(* C13 *)

\* the Q&A handler has entered its try block: the event names a method and it
\* is not the preflight
QaTried == entry = "qa" /\ pc # "start" /\ event.http.some /\ event.http.v # METHOD_OPTIONS

\* the parsed body carries a non-empty extractedText and a non-empty question
QaFieldsGiven ==
    /\ event.body = "json"
    /\ event.extractedText.some /\ event.extractedText.v # Text(<<>>, 0)
    /\ event.question.some /\ event.question.v # <<>>

\* the reply of the model to the Q&A handler, once it is there
QaReplied == entry = "qa" /\ Len(replies) = 1

QaRefusalReached ==
    /\ QaTried
    /\ event.body = "json"
    /\ event.extractedText = Some(Text(TXT_HI, 0))
    /\ event.question = Some(<<>>)
    /\ response.statusCode = 400

----------------------------------------------------------------------------
(* C14 *)

\* the fixed messages the pipeline itself words
PipelineMessages ==
    {MSG_NO_FILE, MSG_UNSUPPORTED_TYPE, MSG_EMPTY_FILE, MSG_NO_EXTRACT, MSG_UPLOAD_FAILED,
     MSG_SERVER_ERROR, MSG_INVALID_PDF, MSG_NO_TEXT, MSG_UNSUPPORTED_DOC, MSG_INVALID_PARAM}

\* the messages of the errors the collaborators threw in this request
UpstreamMessages ==
    {e.message : e \in {x \in ThrownBy("s3") \cup ThrownBy("textract") \cup ThrownBy("bedrock") :
                          Len(x.message) > 0}}

\* C14 (as claimed): the error field of every failure response of the upload
\* handler is one of the pipeline's fixed messages and contains no message of
\* an error thrown by S3, Textract or Bedrock
ErrorFieldNeverUpstream ==
    (Responded /\ response.statusCode # 200) =>
      /\ response.body.error \in PipelineMessages
      /\ \A m \in UpstreamMessages : ~Includes(response.body.error, m)

----------------------------------------------------------------------------
(* C15 *)

\* the request passed the validation of extension and payload
PassedValidation ==
    /\ HasFile
    /\ ToLowerCase(SuffixFromLastDot(event.fileName.v)) \in SupportedExtensions
    /\ BufLength(event.fileBytes.v) > 0

\* the put of the request has completed successfully
PutCompleted ==
    /\ Len(calls) >= 1 /\ calls[1].svc = "s3"
    /\ Len(replies) >= 1 /\ replies[1] = Reply("s3", [kind |-> "return"])

\* C15: in a request to the upload handler the put is sent only after the
\* validation passed, extractText is entered and the extraction service is
\* called only after the put has returned, a by-reference call names the bucket
\* and key of that put, and after a failed put extractText is not entered and
\* the extraction service is not called
ValidatePutExtractInOrder ==
    entry = "handler" =>
      /\ IssuedTo("s3") => (PassedValidation /\ calls[1].svc = "s3")
      /\ ExtractEntered => PutCompleted
      /\ \A i \in TextractCalls :
           /\ i = 2
           /\ PutCompleted
           /\ "S3Object" \in DOMAIN calls[i].command.Document =>
                calls[i].command.Document.S3Object =
                  [Bucket |-> calls[1].command.Bucket, Name |-> calls[1].command.Key]
      /\ ThrownBy("s3") # {} =>
           /\ pc = "done"
           /\ ~ExtractEntered
           /\ ~IssuedTo("textract")

\* C15 witness: a by-reference call to the extraction service is in flight,
\* sent after the put returned
ValidatePutExtractInOrderWitness ==
    /\ entry = "handler"
    /\ pc = "awaitTextract"
    /\ PutCompleted
    /\ "S3Object" \in DOMAIN calls[2].command.Document

\* C15 witness of the failed put: the request ended with the put as its only
\* command
FailedPutReached ==
    /\ entry = "handler"
    /\ ThrownBy("s3") # {}
    /\ Len(calls) = 1

----------------------------------------------------------------------------
(* C16 *)

\* "Invoice Total: 42"
TXT_INVOICE_TOTAL == <<"I","n","v","o","i","c","e"," ","T","o","t","a","l",":"," ","4","2">>

RECURSIVE ExpectedText(_)
\* the texts of the LINE blocks with a non-empty text, in the order of the
\* blocks, a single space between one and the next
ExpectedText(blocks) ==
    IF blocks = <<>> THEN <<>>
    ELSE LET h == Head(blocks)
             rest == ExpectedText(Tail(blocks))
         IN  IF h.BlockType = "LINE" /\ h.Text.some /\ h.Text.v # <<>>
             THEN IF rest = <<>> THEN h.Text.v ELSE h.Text.v \o <<" ">> \o rest
             ELSE rest

\* C16: for every result of the extraction service the candidate text is the
\* texts of its LINE blocks with non-empty text, in order, joined by single
\* spaces, blocks of other types contributing nothing; it is the text that
\* extractText returns and the handler reports
CandidateTextIsLines ==
    \A r \in TextractResults :
      LET expected == IF r.Blocks.some THEN ExpectedText(r.Blocks.v) ELSE <<>>
      IN  /\ LineText(r.Blocks) = expected
          /\ extractOutcome.kind = "return" => extractOutcome.text = Text(expected, 0)
          /\ (Responded /\ response.statusCode = 200) =>
               response.body.extractedText = Text(expected, 0)

\* C16 witness: the blocks LINE "Invoice", WORD "123", LINE "Total: 42" gave
\* the text "Invoice Total: 42"
CandidateTextIsLinesWitness ==
    /\ [kind |-> "return", Blocks |-> Some(ExampleBlocks)] \in TextractResults
    /\ extractOutcome.kind = "return"
    /\ extractOutcome.text = Text(TXT_INVOICE_TOTAL, 0)

----------------------------------------------------------------------------
(* C17 *)

\* the pipeline raised its own failure inside the try block of extractText: the
\* candidate text of the service's result was blank
RaisedNoExtractableText == \E r \in TextractResults : AllBlank(LinesOf(r))

\* C17 (as claimed): the pipeline's own "No text could be extracted" failure
\* leaves extractText as it was raised, never as 'Text extraction failed: ...';
\* and an error leaves extractText as it entered the catch block only when the
\* pipeline produced it: no error thrown by the extraction service is the
\* error that extractText surfaces
PassThroughOnlyOwnFailures ==
    /\ RaisedNoExtractableText =>
         /\ extractOutcome = [kind |-> "throw", error |-> NewError(MSG_NO_TEXT)]
         /\ ~StartsWith(extractOutcome.error.message, MSG_EXTRACTION_FAILED)
    /\ extractOutcome.kind = "throw" =>
         /\ extractOutcome.error \notin ThrownBy("textract")
         /\ extractOutcome.error.src = "pipeline"

----------------------------------------------------------------------------
(* C18 *)

\* the response of a finished request when it runs alone: the same event and
\* document id, the same success or failure of each collaborator, and the
\* extraction service reading the request's own document
AloneResponse(r) ==
    LET b == HandlerBegin(r.event, r.local.documentId)
    IN  IF b.kind = "respond" THEN b.response
        ELSE IF b.kind = "throw" THEN ErrorResponse(b.error)
        ELSE IF r.replies[1].reply.kind = "throw"
        THEN ErrorResponse(r.replies[1].reply.error)
        ELSE LET loc == [NoLocal EXCEPT !.ext = b.ext, !.fileBuffer = b.fileBuffer,
                                        !.documentId = b.documentId, !.key = b.key]
                 x == ExtractBegin(HandlerExtractArgs(loc))
                 outcome ==
                     IF x.kind # "send" THEN x
                     ELSE IF r.replies[2].reply.kind = "throw"
                     THEN ExtractFinish(r.replies[2].reply)
                     ELSE ExtractFinish([kind |-> "return",
                                         Blocks |-> Some(Ocr(b.fileBuffer))])
                 a == HandlerAfterExtract(outcome)
             IN  IF a.kind = "respond" THEN a.response
                 ELSE HandlerAfterSummary([loc EXCEPT !.extractedText = outcome.text],
                                          r.event,
                                          SummaryFinish(r.replies[Len(r.replies)].reply))

\* the request has sent its put
PutSent(i) == Len(reqs[i].calls) >= 1

\* the put of the request has returned
PutStored(i) ==
    /\ Len(reqs[i].replies) >= 1
    /\ reqs[i].replies[1] = Reply("s3", [kind |-> "return"])

\* C18: in every interleaving of the requests, each with its own document id,
\* two requests never put under the same key, an object in the bucket is the
\* body its own request stored, the extraction service reads for a request
\* that request's own document, and the response of a finished request is the
\* response it produces when run alone
RequestsIndependent ==
    \A i \in Requests :
      /\ \A j \in Requests \ {i} :
           (PutSent(i) /\ PutSent(j)) =>
             reqs[i].calls[1].command.Key # reqs[j].calls[1].command.Key
      /\ PutStored(i) =>
           bucket[reqs[i].calls[1].command.Key] = reqs[i].event.fileBytes.v
      /\ reqs[i].read.some => reqs[i].read.v = reqs[i].event.fileBytes.v
      /\ reqs[i].pc = "done" => reqs[i].response = AloneResponse(reqs[i])

\* C18 witness: two uploads of the same file name and different content both
\* ended with 200, one having stored its object while the other was between
\* its put and its by-reference read
RequestsIndependentWitness ==
    /\ reqs[1].event.fileName = reqs[2].event.fileName
    /\ reqs[1].event.fileBytes # reqs[2].event.fileBytes
    /\ reqs[1].pc = "done" /\ reqs[1].response.statusCode = 200
    /\ reqs[2].pc = "done" /\ reqs[2].response.statusCode = 200
    /\ reqs[1].read.some /\ reqs[2].read.some
    /\ Cardinality(DOMAIN bucket) = 2

----------------------------------------------------------------------------
(* C19 *)

\* the places in calls of the commands sent to a collaborator
CallsTo(svc) == {i \in 1..Len(calls) : calls[i].svc = svc}

\* a command and its reply: the i-th reply answers the i-th command
Succeeded(i) == i <= Len(replies) /\ replies[i].reply.kind = "return"

\* C19: a 200 response of the upload handler comes after exactly one put that
\* returned, then an extraction that returned a non-empty text (with at most
\* one command to the extraction service, which returned), then exactly one
\* InvokeModelCommand that returned and whose prompt holds that text cut to
\* 3000 characters; its s3Key is the key of the put.  A request to the upload
\* handler that sent a command to the model passed validation, stored its
\* object and extracted a text.
SuccessAfterPutExtractSummary ==
    /\ (Responded /\ response.statusCode = 200) =>
         /\ CallsTo("s3") = {1} /\ Succeeded(1)
         /\ CallsTo("textract") \subseteq {2}
         /\ \A i \in CallsTo("textract") : Succeeded(i)
         /\ extractOutcome.kind = "return" /\ TextLength(extractOutcome.text) > 0
         /\ CallsTo("bedrock") = {Len(calls)} /\ Succeeded(Len(calls))
         /\ Len(replies) = Len(calls)
         /\ LET input == calls[Len(calls)].command.inputText
                n == Min(TextLength(extractOutcome.text), MAX_TEXT_LENGTH)
            IN  /\ TextLength(input.text) = n
                /\ input.text.chars =
                     SubSeq(extractOutcome.text.chars, 1,
                            Min(n, Len(extractOutcome.text.chars)))
                /\ input.ellipsis <=> TextLength(extractOutcome.text) > MAX_TEXT_LENGTH
         /\ response.body.s3Key = calls[1].command.Key
         /\ response.body.extractedText = extractOutcome.text
    /\ (entry = "handler" /\ IssuedTo("bedrock")) =>
         /\ PassedValidation
         /\ PutCompleted
         /\ extractOutcome.kind = "return"
         /\ Cardinality(CallsTo("bedrock")) = 1

\* C19 witness: a 200 response after a put, a command to the extraction
\* service and a command to the model, in this order
SuccessAfterPutExtractSummaryWitness ==
    /\ Responded /\ response.statusCode = 200
    /\ Len(calls) = 3
    /\ calls[1].svc = "s3" /\ calls[2].svc = "textract" /\ calls[3].svc = "bedrock"

\* C19 witness of the cut: a 200 response whose text was longer than the prompt holds
LongTextSummarized ==
    /\ Responded /\ response.statusCode = 200
    /\ TextLength(extractOutcome.text) > MAX_TEXT_LENGTH

----------------------------------------------------------------------------
(* C20 *)

\* the invocation of the Q&A handler is over: it returned or an exception
\* left it
QaEnded == entry = "qa" /\ pc \in {"done", "escaped"}

\* C20 (as claimed): every invocation of the Q&A handler, the events without
\* requestContext.http included, ends with a returned response of status 200,
\* 400 or 500; no exception leaves the handler
QaAlwaysResponds ==
    QaEnded =>
      /\ pc = "done"
      /\ response.statusCode \in {200, 400, 500}

----------------------------------------------------------------------------
(* C21 *)

\* the response of the upload handler is there and its status is 200, 400 or 500
AnsweredWithStatus == Responded /\ response.statusCode \in {200, 400, 500}

\* a step after the response: there is none that sends a command, changes the
\* response or resumes the handler
NothingAfterResponse ==
    Responded => (response' = response /\ calls' = calls /\ replies' = replies /\ pc' = pc)

\* C21: every request to the upload handler eventually ends with a response of
\* status 200, 400 or 500, whatever its body holds and whether each
\* collaborator returns or throws; there is no response before the end and a
\* single one at it (no exception leaves the handler), and after it no command
\* is sent to a collaborator and nothing changes
HandlerAlwaysResponds ==
    /\ (entry = "handler" /\ pc = "start") ~> AnsweredWithStatus
    /\ [](Responded => AnsweredWithStatus)
    /\ [](~Responded => response = NoResponse)
    /\ [][NothingAfterResponse]_vars

\* C21 witness: a request whose body lacks fileBase64 was answered, the
\* TypeError of Buffer.from caught
HandlerAlwaysRespondsWitness ==
    /\ Responded
    /\ event.body = "json"
    /\ event.fileName.some /\ ~event.fileBytes.some
    /\ ExtOf(event.fileName.v) = EXT_PDF
    /\ response.statusCode = 500

\* C21 witness of a throwing collaborator: the put threw a value that is no
\* Error and the request was answered 500
NonErrorAnswered ==
    /\ Responded
    /\ \E e \in ThrownBy("s3") : ~e.inst
    /\ response.statusCode = 500

----------------------------------------------------------------------------
(* C22 *)

\* extractText returned a text that is empty or all white space
ExtractedBlank == extractOutcome.kind = "return" /\ BlankText(extractOutcome.text)

\* C22 (as claimed): the summarization service is never invoked with a text
\* that is empty or all white space: whatever the extension, the txt documents
\* whose payload decodes to white space included, no InvokeModel command is
\* sent for such a text and the request is answered 400 with an error message
\* instead of a summary
SummaryNeverOfBlankText ==
    (entry = "handler" /\ ExtractedBlank) =>
        /\ ~IssuedTo("bedrock")
        /\ Responded => (response.statusCode = 400 /\ "error" \in DOMAIN response.body)

\* a txt document of one space was summarized and answered 200
BlankTxtSummarized ==
    /\ Responded /\ response.statusCode = 200
    /\ ExtOf(event.fileName.v) = EXT_TXT
    /\ event.fileBytes.v = Buf(B_SPACE, 0)
    /\ ExtractedBlank
    /\ IssuedTo("bedrock")

====
